---- MODULE Spec2Model ----
(***************************************************************************)
(* A model of lif_meanfield_tools: the fixed-point iteration for the       *)
(* population rates (meanfield_calcs.firing_rates), the Siegert solver     *)
(* (aux_calcs.nu_0, siegert1, nu0_fb433), the transfer functions, the     *)
(* spectral stage (power_spectra, sensitivity_measure, eigen_spectra), the *)
(* delay distribution (delay_dist_matrix_single), the results cache of     *)
(* Network, the h5 files of input_output (save, load_from_h5) and the      *)
(* connectivity of Circuit (reduce_connectivity, restore_full_connectivity)*)
(*                                                                         *)
(* Numbers.  A Python float is modelled as a fixed-point number: a record  *)
(* [nan |-> FALSE, v |-> n] with n an integer count of quanta, or the one  *)
(* value NaN.  Rates are counted in micro-hertz, so that the tolerance     *)
(* 1e-5 Hz of firing_rates is eps_tol = 10 quanta and its initial eps of   *)
(* 1.0 Hz is eps_init quanta.  Arithmetic and comparisons follow IEEE 754: *)
(* an operation on NaN gives NaN and every comparison with NaN is false.   *)
(* A product with dt = 0.05 is a division by dt_inv = 20 that truncates    *)
(* towards zero, so |x * dt| < eps_tol exactly when |x| < 20 * eps_tol.    *)
(***************************************************************************)
EXTENDS Integers, Sequences, FiniteSets, TLC

VARIABLES
    net,        \* firing_rates: the arguments of the call (a record)
    y0,         \* firing_rates: y[0], the previous iterate
    y1,         \* firing_rates: y[1], the new iterate
    eps,        \* firing_rates: eps, the largest step of the last iteration
    pc,         \* firing_rates: "loop" at the while test, "done" after return
    yprev,      \* history: y[0] as the last executed iteration read it
    seen,       \* history: every y[0] an iteration has started from
    sgArgs,     \* Siegert solver: the arguments of the call (a record)
    sgRes,      \* Siegert solver: what the call did, "none" before it
    tfArgs,     \* transfer function: the arguments of the call (a record)
    tfRes,      \* transfer function: what the call did, "none" before it
    psArgs,     \* spectral analysis: the arguments of the call (a record)
    psRes,      \* spectral analysis: what the call did, "none" before it
    ddArgs,     \* delay distribution: the arguments of the call (a record)
    ddRes,      \* delay distribution: what the call did, "none" before it
    nwParams,   \* Network: self.network_params, as the value that stands for them
    nwResults,  \* Network: self.results, a function from result keys to values
    nwCall,     \* Network: the last call of a cached method, "none" before it
    nwInvoked,  \* history: for each key, how often its wrapped function ran
    ioArgs,     \* h5 files: the dictionaries and keys that save and load are given
    ioFiles,    \* h5 files: the files of the directory, a function from names
    ioCall,     \* h5 files: the last call of load_from_h5 and the files it found
    ccM_full,   \* Circuit: self.M_full, the full indegree matrix
    ccM,        \* Circuit: self.M
    ccAnaM,     \* Circuit: self.ana.M, the copy of the Analytics object
    ccCall      \* Circuit: the last call on the connectivity, "none" before it

varsFR == <<net, y0, y1, eps, pc, yprev, seen>>
varsSG == <<sgArgs, sgRes>>
varsTF == <<tfArgs, tfRes>>
varsPS == <<psArgs, psRes>>
varsDD == <<ddArgs, ddRes>>
varsNW == <<nwParams, nwResults, nwCall, nwInvoked>>
varsIO == <<ioArgs, ioFiles, ioCall>>
varsCC == <<ccM_full, ccM, ccAnaM, ccCall>>
varsExt == <<varsDD, varsNW, varsIO, varsCC>>
vars == <<varsFR, varsSG, varsTF, varsPS, varsExt>>

\* a component that takes no part in the specification at hand
NoCall == [fn |-> "none"]
IdleFR ==
    /\ net = [dimension |-> 0]
    /\ y0 = <<>> /\ y1 = <<>> /\ yprev = <<>>
    /\ eps = [nan |-> FALSE, v |-> 0]
    /\ pc = "idle"
    /\ seen = {}
IdleSG == sgArgs = NoCall /\ sgRes = NoCall
IdleTF == tfArgs = NoCall /\ tfRes = NoCall
IdlePS == psArgs = NoCall /\ psRes = NoCall
IdleDD == ddArgs = NoCall /\ ddRes = NoCall
IdleNW ==
    /\ nwParams = 0
    /\ nwResults = <<>>
    /\ nwCall = NoCall
    /\ nwInvoked = <<>>
IdleIO == ioArgs = NoCall /\ ioFiles = <<>> /\ ioCall = NoCall
IdleCC == ccM_full = <<>> /\ ccM = <<>> /\ ccAnaM = <<>> /\ ccCall = NoCall
IdleExt == IdleDD /\ IdleNW /\ IdleIO /\ IdleCC

----------------------------------------------------------------------------
(* Floats *)

NaN == [nan |-> TRUE, v |-> 0]
Num(n) == [nan |-> FALSE, v |-> n]
IsNaN(a) == a.nan

FAdd(a, b) == IF a.nan \/ b.nan THEN NaN ELSE Num(a.v + b.v)
FSub(a, b) == IF a.nan \/ b.nan THEN NaN ELSE Num(a.v - b.v)
FMul(a, b) == IF a.nan \/ b.nan THEN NaN ELSE Num(a.v * b.v)
FNeg(a) == IF a.nan THEN NaN ELSE Num(-a.v)
FAbs(a) == IF a.nan THEN NaN ELSE Num(IF a.v < 0 THEN -a.v ELSE a.v)
\* comparisons: false as soon as one side is NaN
FGe(a, b) == ~a.nan /\ ~b.nan /\ a.v >= b.v
FGt(a, b) == ~a.nan /\ ~b.nan /\ a.v > b.v
FLt(a, b) == ~a.nan /\ ~b.nan /\ a.v < b.v

TruncDiv(a, b) == IF a >= 0 THEN a \div b ELSE -((-a) \div b)

RECURSIVE SqrtFrom(_, _)
SqrtFrom(n, r) == IF (r + 1) * (r + 1) > n THEN r ELSE SqrtFrom(n, r + 1)
\* np.sqrt: NaN for a negative or NaN argument
FSqrt(a) == IF a.nan \/ a.v < 0 THEN NaN ELSE Num(SqrtFrom(a.v, 0))

\* Python's builtin max over a sequence: the first item, replaced by a later
\* item only when that item compares greater (so a NaN that comes first stays,
\* and a NaN that comes later is skipped)
RECURSIVE PyMaxFrom(_, _, _)
PyMaxFrom(s, i, cur) ==
    IF i > Len(s) THEN cur
    ELSE PyMaxFrom(s, i + 1, IF FGt(s[i], cur) THEN s[i] ELSE cur)
\* a maximum that is NaN as soon as one item is NaN, as np.max
NanMax(s) ==
    IF \E i \in DOMAIN s : s[i].nan THEN NaN ELSE PyMaxFrom(s, 2, s[1])
PyMax(s) == PyMaxFrom(s, 2, s[1])

----------------------------------------------------------------------------
(* meanfield_calcs.firing_rates *)

MaxDim == 2
RHigh == 1000
ExtRate == 500
MuCut == 0
SigCut == 30

eps_tol == 10
eps_init == 1000000
dt_inv == 20

Pop(dim) == 1..dim
Vec(dim, x) == [i \in Pop(dim) |-> x]
Mat(dim, x) == [i \in Pop(dim) |-> [j \in Pop(dim) |-> x]]

\* the (mu, sigma) plane in four classes; the stationary rate of a class is
\* the value of the table net.tab there
Classes == {"lo_quiet", "lo_noisy", "hi_quiet", "hi_noisy"}
InputClass(mu, sigma) ==
    IF mu.v > MuCut
    THEN (IF sigma.v > SigCut THEN "hi_noisy" ELSE "hi_quiet")
    ELSE (IF sigma.v > SigCut THEN "lo_noisy" ELSE "lo_quiet")

Rates == {Num(0), Num(RHigh), NaN}

\* aux_calcs.nu0_fb433 as firing_rates sees it: a number for every (mu, sigma),
\* NaN as soon as mu or sigma is NaN (every comparison of nu0_fb433 and nu_0 is
\* then false, siegert2 integrates a NaN integrand and the result is NaN)
rate_function(p, mu, sigma) ==
    IF IsNaN(mu) \/ IsNaN(sigma) THEN NaN ELSE p.tab[InputClass(mu, sigma)]

RECURSIVE DotFrom(_, _, _, _)
DotFrom(row, nu, j, acc) ==
    IF j > Len(nu) THEN acc
    ELSE DotFrom(row, nu, j + 1, FAdd(acc, FMul(Num(row[j]), nu[j])))
\* np.dot(M, nu)[i]
Dot(row, nu) == DotFrom(row, nu, 1, Num(0))

\* mu = np.dot(K * J, nu) * tau_m + j * K_ext * nu_ext * tau_m
mean(p, nu) ==
    [i \in Pop(p.dimension) |->
        FAdd(FMul(Dot([j \in Pop(p.dimension) |-> p.K[i][j] * p.J[i][j]], nu),
                  Num(p.tau_m)),
             Num(p.j * p.K_ext[i] * p.nu_ext * p.tau_m))]

\* sigma = np.sqrt(np.dot(K * J**2, nu) * tau_m + j**2 * K_ext * nu_ext * tau_m)
standard_deviation(p, nu) ==
    [i \in Pop(p.dimension) |->
        FSqrt(FAdd(FMul(Dot([j \in Pop(p.dimension) |->
                                 p.K[i][j] * p.J[i][j] * p.J[i][j]], nu),
                        Num(p.tau_m)),
                   Num(p.j * p.j * p.K_ext[i] * p.nu_ext * p.tau_m)))]

\* new_nu: the rate map F of the relaxation
new_nu(p, nu) ==
    [i \in Pop(p.dimension) |->
        rate_function(p, mean(p, nu)[i], standard_deviation(p, nu)[i])]

get_rate_difference(p, nu) ==
    [i \in Pop(p.dimension) |-> FAdd(FNeg(nu[i]), new_nu(p, nu)[i])]

\* delta_y * dt for a step of half the size, dt = 0.025
TimesDtSmall(a) == IF a.nan THEN NaN ELSE Num(TruncDiv(a.v, 2 * dt_inv))
\* delta_y * dt
TimesDt(a) == IF a.nan THEN NaN ELSE Num(TruncDiv(a.v, dt_inv))

\* a looser test of the while loop: eps >= 2e-5
LoopCondLoose(e) == FGe(e, Num(2 * eps_tol))
\* the test of the while loop: eps >= 1e-5
LoopCond(e) == FGe(e, Num(eps_tol))

\* max(epsilon), the largest step with its sign
MaxNoAbs(epsilon) == PyMax(epsilon)
\* max(np.abs(epsilon))
MaxAbs(epsilon) == PyMax([i \in DOMAIN epsilon |-> FAbs(epsilon[i])])

Networks ==
    { [dimension |-> d, tau_m |-> 1, j |-> 1, nu_ext |-> ne,
       K |-> Mat(d, k), J |-> Mat(d, w),
       K_ext |-> [i \in Pop(d) |-> IF graded THEN i - 1 ELSE 1], tab |-> t] :
         d \in 1..MaxDim, ne \in {0, ExtRate}, k \in {0, 1}, w \in {-1, 0, 1},
         t \in [Classes -> Rates], graded \in BOOLEAN }

InitFR ==
    /\ net \in Networks
    /\ y0 = Vec(net.dimension, Num(0))
    /\ y1 = Vec(net.dimension, Num(0))
    /\ eps = Num(eps_init)
    /\ pc = "loop"
    /\ yprev = Vec(net.dimension, Num(0))
    /\ seen = {}
    /\ IdleSG /\ IdleTF /\ IdlePS /\ IdleExt

\* one pass through the body of the while loop
LoopStep ==
    /\ pc = "loop"
    /\ LoopCond(eps)
    /\ LET delta_y == get_rate_difference(net, y0)
           next1 == [i \in Pop(net.dimension) |-> FAdd(y0[i], TimesDt(delta_y[i]))]
           epsilon == [i \in Pop(net.dimension) |-> FSub(next1[i], y0[i])]
       IN /\ y1' = next1
          /\ eps' = MaxAbs(epsilon)
          /\ y0' = next1
    /\ yprev' = y0
    /\ seen' = seen \cup {y0}
    /\ UNCHANGED <<net, pc, varsSG, varsTF, varsPS, varsExt>>

\* the test fails: return y[1]
LoopExit ==
    /\ pc = "loop"
    /\ ~LoopCond(eps)
    /\ pc' = "done"
    /\ UNCHANGED <<net, y0, y1, eps, yprev, seen, varsSG, varsTF, varsPS, varsExt>>

NextFR == LoopStep \/ LoopExit

SpecFR == InitFR /\ [][NextFR]_vars

----------------------------------------------------------------------------
(* Claims about firing_rates *)

Steps == [i \in DOMAIN y1 |-> FSub(y1[i], yprev[i])]
Residual(nu) == [i \in DOMAIN nu |-> FAbs(FSub(new_nu(net, nu)[i], nu[i]))]

\* C1 as stated: firing_rates returns only with a largest step below 1e-5, and
\* the returned vector nu satisfies |F(nu)_i - nu_i| < 1e-5 for every i
C1_Original ==
    pc = "done" =>
        /\ FLt(eps, Num(eps_tol))
        /\ \A i \in DOMAIN y1 : FLt(Residual(y1)[i], Num(eps_tol))

\* C1 amended: firing_rates returns only when the test eps >= 1e-5 fails for
\* the largest step of the last iteration; when that step is a number, every
\* component of the returned vector that is a number moved by less than 1e-5
\* in the last iteration, and the residual |F(nu)_i - nu_i| of the iterate
\* nu BEFORE that iteration is below 1e-5 / 0.05 = 2e-4
C1_Amended ==
    pc = "done" =>
        /\ ~FGe(MaxAbs(Steps), Num(eps_tol))
        /\ ~IsNaN(eps) =>
              \A i \in DOMAIN y1 :
                  ~IsNaN(y1[i]) =>
                      /\ FLt(FAbs(Steps[i]), Num(eps_tol))
                      /\ FLt(Residual(yprev)[i], Num(20 * eps_tol))

\* a return after several iterations whose returned vector has a residual of
\* 1e-5 or more
C1_Witness ==
    /\ pc = "done"
    /\ ~IsNaN(eps)
    /\ yprev # Vec(net.dimension, Num(0))
    /\ \E i \in DOMAIN y1 : FGe(Residual(y1)[i], Num(eps_tol))

ZeroConn == \A i, j \in Pop(net.dimension) : net.K[i][j] * net.J[i][j] = 0

\* nu0_fb433 at the external drive alone
ExtOnlyRate ==
    [i \in Pop(net.dimension) |->
        rate_function(net,
            Num(net.j * net.K_ext[i] * net.nu_ext * net.tau_m),
            FSqrt(Num(net.j * net.j * net.K_ext[i] * net.nu_ext * net.tau_m)))]

\* C2 as stated: without recurrent connectivity the returned rate of every
\* population equals the external-drive-only rate
C2_Original ==
    (pc = "done" /\ ZeroConn) => \A i \in DOMAIN y1 : y1[i] = ExtOnlyRate[i]

\* the distance of the iterate from the external-drive-only rate, summed over
\* the populations where both are numbers
RECURSIVE DistFrom(_, _)
DistFrom(nu, i) ==
    IF i > Len(nu) THEN 0
    ELSE DistFrom(nu, i + 1)
         + (IF IsNaN(nu[i]) \/ IsNaN(ExtOnlyRate[i]) THEN 0
            ELSE FAbs(FSub(ExtOnlyRate[i], nu[i])).v)
Dist(nu) == DistFrom(nu, 1)

\* C2 amended: without recurrent connectivity firing_rates terminates (every
\* iteration after which the loop goes on has brought the iterate strictly
\* closer to the external-drive-only rate), and when the external-drive-only
\* rates are numbers the returned rate of every population lies within
\* 1e-5 / 0.05 = 2e-4 of the external-drive-only rate
C2_Amended ==
    /\ [][(ZeroConn /\ y0' # y0 /\ LoopCond(eps')) => Dist(y0') < Dist(y0)]_vars
    /\ []((pc = "done" /\ ZeroConn
            /\ \A i \in DOMAIN y1 : ~IsNaN(ExtOnlyRate[i])) =>
          \A i \in DOMAIN y1 :
              FLt(FAbs(FSub(ExtOnlyRate[i], y1[i])), Num(20 * eps_tol)))

\* a return without recurrent connectivity, after several iterations, with a
\* rate that is not the external-drive-only rate
C2_Witness ==
    /\ pc = "done"
    /\ ZeroConn
    /\ yprev # Vec(net.dimension, Num(0))
    /\ \A i \in DOMAIN y1 : ~IsNaN(ExtOnlyRate[i])
    /\ \E i \in DOMAIN y1 : y1[i] # ExtOnlyRate[i]

\* the loop is about to iterate from an iterate it has iterated from before
Revisit == pc = "loop" /\ LoopCond(eps) /\ y0 \in seen

\* C3 as stated: the call returns only if some relaxation step is smaller
\* than 1e-5
C3_Original ==
    pc = "done" => \A i \in DOMAIN y1 : FLt(FAbs(Steps[i]), Num(eps_tol))

\* C3 amended: the call returns only after an iteration whose largest step
\* fails the test eps >= 1e-5, by being smaller than 1e-5 or by being NaN;
\* there is no cap: once the iterates cycle with steps of 1e-5 or more the
\* loop is at such an iterate again after every further step, so the call
\* never returns
C3_Amended ==
    /\ [](pc = "done" =>
            \/ IsNaN(Steps[1])
            \/ \A i \in DOMAIN y1 :
                  IsNaN(Steps[i]) \/ FLt(FAbs(Steps[i]), Num(eps_tol)))
    /\ [][Revisit => Revisit']_vars

\* the iterates cycle
C3_Witness == Revisit

\* the iterate the last iteration started from holds a NaN in a later
\* population and a number in the first
LaterNaNBefore ==
    /\ ~IsNaN(yprev[1])
    /\ \E i \in DOMAIN yprev : i > 1 /\ IsNaN(yprev[i])

\* e is the largest of the steps that are numbers
LargestNumber(e) ==
    /\ \E i \in DOMAIN y1 : ~IsNaN(Steps[i]) /\ e = FAbs(Steps[i])
    /\ \A i \in DOMAIN y1 : ~IsNaN(Steps[i]) => FGe(e, FAbs(Steps[i]))

\* C29 as stated: a NaN step of the first population makes the test
\* eps >= 1e-5 false, and the loop exits after that iteration returning a
\* vector with NaN; a NaN step of a later population is ignored by the
\* maximum, and the loop goes on until the other populations have converged
C29_Original ==
    /\ IsNaN(Steps[1]) => (~LoopCond(eps) /\ IsNaN(y1[1]))
    /\ (~IsNaN(Steps[1]) /\ seen # {}) => LargestNumber(eps)
    /\ (pc = "done" /\ LaterNaNBefore) =>
          \A i \in DOMAIN y1 :
              ~IsNaN(yprev[i]) => FLt(FAbs(Steps[i]), Num(eps_tol))

\* C29 amended: a NaN step of the first population makes the test false, and
\* the loop exits after that iteration returning a vector with NaN; a NaN
\* step of a later population is ignored by the maximum of that iteration,
\* and unless the other steps are below 1e-5 the loop runs once more: np.dot
\* then carries the NaN into every population, the step of the first
\* population is NaN and the loop exits with a vector of NaN only, the other
\* populations not having converged
C29_Amended ==
    /\ IsNaN(Steps[1]) => (~LoopCond(eps) /\ IsNaN(y1[1]))
    /\ (~IsNaN(Steps[1]) /\ seen # {}) => LargestNumber(eps)
    /\ (\E i \in DOMAIN yprev : IsNaN(yprev[i])) =>
          /\ \A i \in DOMAIN y1 : IsNaN(y1[i])
          /\ ~LoopCond(eps)

\* a return one iteration after a NaN step of the second population alone
C29_Witness ==
    /\ pc = "done"
    /\ LaterNaNBefore
    /\ \A i \in DOMAIN y1 : IsNaN(y1[i])

----------------------------------------------------------------------------
(* aux_calcs: nu_0, siegert1, siegert2, nu0_fb433                          *)
(*                                                                         *)
(* The arguments are integers (times in ms, voltages in mV), sigma > 0.    *)
(* y_th = (V_th - mu) / sigma is never formed: a comparison of y_th with a *)
(* number is the same comparison of V_th - mu with that number times sigma.*)
(* The value of  np.exp(y_th**2) * quad(integrand, lower, upper)[0]  (and  *)
(* of quad(...)[0] in siegert2) depends on y_th and y_r alone; it is the   *)
(* argument quad of the call, a positive integer.  A rate is the exact     *)
(* fraction [num, den] in 1/ms.  The sum tau_r + tau_m * quad is a float   *)
(* sum: a term smaller than the other by the factor Mantissa is lost.      *)

Mantissa == 1000
QuadHuge == 5000

Abs(x) == IF x < 0 THEN -x ELSE x
Frac(n, d) == [num |-> n, den |-> d]
FracGt(a, b) == a.num * b.den > b.num * a.den
FracPos(a) == a.num > 0 /\ a.den > 0
FracZero(a) == a.num = 0
Absorbed(a, b) == a * Mantissa < b
FlAdd(a, b) == IF Absorbed(a, b) THEN b ELSE a + b

\* the bracket searches of siegert1 (lines 127-139) come to an end unless the
\* doubling of the upper bound starts at y_th = 0 with integrand(0) =
\* 2 * (y_th - y_r) > 1e-12: then upper_bound *= 2 leaves it at 0 for ever
siegert1_brackets_found(V_th_rel, V_0_rel, mu, sigma) ==
    ~(V_th_rel - mu = 0 /\ V_th_rel - V_0_rel > 0)

\* a result names the function that computed it (by): the integrals of
\* siegert1 and siegert2 are different functions of y_th and y_r

\* siegert1 with the overflow cut at y_th >= 10
siegert1_cap10(tau_m, tau_r, V_th_rel, V_0_rel, mu, sigma, quad) ==
    IF ~siegert1_brackets_found(V_th_rel, V_0_rel, mu, sigma)
    THEN [kind |-> "hang", by |-> "siegert1"]
    ELSE IF V_th_rel - mu >= 10 * sigma
         THEN [kind |-> "value", by |-> "siegert1", out |-> Frac(0, 1)]
         ELSE [kind |-> "value", by |-> "siegert1", out |-> Frac(1, FlAdd(tau_r, quad * tau_m))]

siegert1(tau_m, tau_r, V_th_rel, V_0_rel, mu, sigma, quad) ==
    IF ~siegert1_brackets_found(V_th_rel, V_0_rel, mu, sigma)
    THEN [kind |-> "hang", by |-> "siegert1"]
    ELSE IF V_th_rel - mu >= 20 * sigma
         THEN [kind |-> "value", by |-> "siegert1", out |-> Frac(0, 1)]
         ELSE [kind |-> "value", by |-> "siegert1", out |-> Frac(1, FlAdd(tau_r, quad * tau_m))]

siegert2(tau_m, tau_r, V_th_rel, V_0_rel, mu, sigma, quad) ==
    [kind |-> "value", by |-> "siegert2", out |-> Frac(1, FlAdd(tau_r, quad * tau_m))]

\* the test of nu_0 with a strict comparison
BranchAStrict(V_th_rel, mu) ==
    100 * mu < 100 * V_th_rel + (95 * Abs(V_th_rel) - 100 * Abs(V_th_rel))

\* mu <= V_th_rel + (0.95 * abs(V_th_rel) - abs(V_th_rel)), times 100: for
\* integer mu and V_th_rel the float expression is exact where the cut is an
\* integer (V_th_rel a multiple of 20) and off by less than 0.05 elsewhere
BranchA(V_th_rel, mu) ==
    100 * mu <= 100 * V_th_rel + (95 * Abs(V_th_rel) - 100 * Abs(V_th_rel))

nu_0(tau_m, tau_r, V_th_rel, V_0_rel, mu, sigma, quad) ==
    IF BranchA(V_th_rel, mu)
    THEN siegert1(tau_m, tau_r, V_th_rel, V_0_rel, mu, sigma, quad)
    ELSE siegert2(tau_m, tau_r, V_th_rel, V_0_rel, mu, sigma, quad)

\* the same test on the distance |x_th|, both sides
FarAboveTwoSided(V_th_rel, mu, sigma, tie) ==
    \/ V_th_rel - mu > 10 * sigma
    \/ V_th_rel - mu < -10 * sigma
    \/ (Abs(V_th_rel - mu) = 10 * sigma /\ tie)
\* x_th > 20.0 / np.sqrt(2.) with x_th = np.sqrt(2.) * (V_th_rel - mu) / sigma:
\* V_th_rel - mu > 10 * sigma.  Where the two sides are equal as real numbers
\* the outcome is that of the rounding of the two floats: tie
FarAbove(V_th_rel, mu, sigma, tie) ==
    \/ V_th_rel - mu > 10 * sigma
    \/ (V_th_rel - mu = 10 * sigma /\ tie)

\* the result of nu0_fb433: nu_0 itself (path "delta"), or nu_0 minus the term
\* sqrt(tau_s / tau_m) * alpha / (tau_m * sqrt(2)) * dPhi * (r * tau_m)**2
\* with dPhi = Phi(x_th) - Phi(x_r) (path "fb"), kept as the expression it is
nu0_fb433(tau_m, tau_s, tau_r, V_th_rel, V_0_rel, mu, sigma, quad, tie) ==
    LET r == nu_0(tau_m, tau_r, V_th_rel, V_0_rel, mu, sigma, quad)
    IN IF r.kind = "hang" THEN r
       ELSE IF FarAbove(V_th_rel, mu, sigma, tie)
            THEN [kind |-> "value", path |-> "delta", r |-> r.out]
            ELSE [kind |-> "value", path |-> "fb", r |-> r.out,
                  k2 |-> <<tau_s, tau_m>>,
                  Phi_th |-> <<V_th_rel - mu, sigma>>,
                  Phi_r |-> <<V_0_rel - mu, sigma>>]

SiegertArgs ==
    { [tau_m |-> 10, tau_s |-> ts, tau_r |-> tr, tau_r2 |-> tr + d,
       V_th_rel |-> v[1], V_0_rel |-> v[2], mu |-> m, sigma |-> sg,
       quad |-> q, tie |-> t] :
         ts \in {0, 1}, tr \in {0, 2}, d \in {1, 3},
         v \in {<<15, 0>>, <<0, -5>>, <<20, 0>>},
         m \in {-45, -5, 0, 5, 14, 15, 16, 19, 20, 40},
         sg \in {1, 2}, q \in {1, 3, QuadHuge}, t \in BOOLEAN }

InitSG ==
    /\ IdleFR /\ IdleTF /\ IdlePS /\ IdleExt
    /\ sgArgs \in SiegertArgs
    /\ sgRes = NoCall

\* nu_0 called twice, with the refractory times tau_r < tau_r2
Call_nu_0 ==
    /\ sgRes = NoCall
    /\ sgRes' = [fn |-> "nu_0",
                 res |-> nu_0(sgArgs.tau_m, sgArgs.tau_r, sgArgs.V_th_rel,
                              sgArgs.V_0_rel, sgArgs.mu, sgArgs.sigma, sgArgs.quad),
                 res2 |-> nu_0(sgArgs.tau_m, sgArgs.tau_r2, sgArgs.V_th_rel,
                               sgArgs.V_0_rel, sgArgs.mu, sgArgs.sigma, sgArgs.quad)]
    /\ UNCHANGED <<sgArgs, varsFR, varsTF, varsPS, varsExt>>

Call_nu0_fb433 ==
    /\ sgRes = NoCall
    /\ sgRes' = [fn |-> "nu0_fb433",
                 res |-> nu0_fb433(sgArgs.tau_m, sgArgs.tau_s, sgArgs.tau_r,
                                   sgArgs.V_th_rel, sgArgs.V_0_rel, sgArgs.mu,
                                   sgArgs.sigma, sgArgs.quad, sgArgs.tie)]
    /\ UNCHANGED <<sgArgs, varsFR, varsTF, varsPS, varsExt>>

NextSG == Call_nu_0 \/ Call_nu0_fb433

SpecSG == InitSG /\ [][NextSG]_vars

----------------------------------------------------------------------------
(* Claims about the Siegert solver *)

\* Branch A with mu below V_th, positive sigma, V_th > V_0, tau_r < tau_r2
C4_Case ==
    /\ sgRes.fn = "nu_0"
    /\ BranchA(sgArgs.V_th_rel, sgArgs.mu)
    /\ sgArgs.mu < sgArgs.V_th_rel
    /\ sgArgs.sigma > 0
    /\ sgArgs.V_th_rel > sgArgs.V_0_rel
    /\ sgArgs.tau_r < sgArgs.tau_r2
Y_th_ge_20 == sgArgs.V_th_rel - sgArgs.mu >= 20 * sgArgs.sigma

\* C4 as stated: in Branch A nu_0 is strictly positive and strictly decreasing
\* in tau_r, also where (V_th - mu) / sigma >= 20
C4_Original ==
    C4_Case =>
        /\ sgRes.res.kind = "value" /\ sgRes.res2.kind = "value"
        /\ FracGt(sgRes.res.out, sgRes.res2.out)
        /\ FracPos(sgRes.res2.out)

\* C4 amended: in Branch A, where (V_th - mu) / sigma < 20, nu_0 is strictly
\* positive and not increasing in tau_r, and strictly decreasing unless the
\* larger tau_r is lost in the float sum tau_r + tau_m * integral; where
\* (V_th - mu) / sigma >= 20 it is 0 for every tau_r
C4_Amended ==
    C4_Case =>
        /\ sgRes.res.kind = "value" /\ sgRes.res2.kind = "value"
        /\ ~Y_th_ge_20 =>
              /\ FracPos(sgRes.res.out) /\ FracPos(sgRes.res2.out)
              /\ ~FracGt(sgRes.res2.out, sgRes.res.out)
              /\ ~Absorbed(sgArgs.tau_r2, sgArgs.tau_m * sgArgs.quad) =>
                    FracGt(sgRes.res.out, sgRes.res2.out)
        /\ Y_th_ge_20 => (FracZero(sgRes.res.out) /\ FracZero(sgRes.res2.out))

\* nu_0 evaluated in Branch A at (V_th - mu) / sigma >= 20
C4_Witness == C4_Case /\ Y_th_ge_20 /\ FracZero(sgRes.res.out)

C5_Case == sgRes.fn = "nu0_fb433" /\ sgRes.res.kind = "value" /\ sgArgs.sigma > 0
X_th_above == sgArgs.V_th_rel - sgArgs.mu > 10 * sgArgs.sigma
X_th_below == sgArgs.V_th_rel - sgArgs.mu < -10 * sgArgs.sigma
X_th_within == Abs(sgArgs.V_th_rel - sgArgs.mu) < 10 * sgArgs.sigma

\* C5 as stated: nu0_fb433 returns nu_0 unmodified for x_th > 20/sqrt(2) and
\* for x_th < -20/sqrt(2), and applies the correction only for
\* |x_th| <= 20/sqrt(2)
C5_Original ==
    C5_Case =>
        /\ (X_th_above \/ X_th_below) => sgRes.res.path = "delta"
        /\ sgRes.res.path = "fb" => ~(X_th_above \/ X_th_below)

\* C5 amended: nu0_fb433 returns nu_0 unmodified for x_th > 20/sqrt(2) only;
\* for every x_th < 20/sqrt(2), those below -20/sqrt(2) included, it returns
\* nu_0 minus the correction built from Phi(x_th) - Phi(x_r)
C5_Amended ==
    C5_Case =>
        /\ X_th_above =>
              /\ sgRes.res.path = "delta"
              /\ sgRes.res.r = nu_0(sgArgs.tau_m, sgArgs.tau_r, sgArgs.V_th_rel,
                                    sgArgs.V_0_rel, sgArgs.mu, sgArgs.sigma,
                                    sgArgs.quad).out
        /\ (X_th_within \/ X_th_below) =>
              /\ sgRes.res.path = "fb"
              /\ sgRes.res.Phi_th = <<sgArgs.V_th_rel - sgArgs.mu, sgArgs.sigma>>
              /\ sgRes.res.Phi_r = <<sgArgs.V_0_rel - sgArgs.mu, sgArgs.sigma>>

\* nu0_fb433 evaluated at x_th < -20/sqrt(2): the correction is applied
C5_Witness == C5_Case /\ X_th_below /\ sgRes.res.path = "fb"

\* mu at the cut V_th - 0.05 * |V_th|
AtCut == 100 * sgArgs.mu = 100 * sgArgs.V_th_rel - 5 * Abs(sgArgs.V_th_rel)
BelowCut == 100 * sgArgs.mu < 100 * sgArgs.V_th_rel - 5 * Abs(sgArgs.V_th_rel)

\* C25: nu_0 evaluates siegert1 if mu <= V_th - 0.05 * |V_th| and siegert2
\* otherwise, never both and never neither; mu at the cut goes to siegert1,
\* and with V_th = 0 every mu <= 0 goes to siegert1
C25_Theorem ==
    sgRes.fn = "nu_0" =>
        /\ sgRes.res.by \in {"siegert1", "siegert2"}
        /\ (BelowCut \/ AtCut) <=> sgRes.res.by = "siegert1"
        /\ ~(BelowCut \/ AtCut) <=> sgRes.res.by = "siegert2"
        /\ sgRes.res.by = "siegert1" =>
              sgRes.res = siegert1(sgArgs.tau_m, sgArgs.tau_r, sgArgs.V_th_rel,
                                   sgArgs.V_0_rel, sgArgs.mu, sgArgs.sigma,
                                   sgArgs.quad)
        /\ sgRes.res.by = "siegert2" =>
              sgRes.res = siegert2(sgArgs.tau_m, sgArgs.tau_r, sgArgs.V_th_rel,
                                   sgArgs.V_0_rel, sgArgs.mu, sgArgs.sigma,
                                   sgArgs.quad)
        /\ (sgArgs.V_th_rel = 0 /\ sgArgs.mu <= 0) => sgRes.res.by = "siegert1"

\* nu_0 called with mu at the cut of a nonzero threshold
C25_Witness ==
    /\ sgRes.fn = "nu_0" /\ AtCut /\ sgArgs.V_th_rel # 0
    /\ sgRes.res.by = "siegert1" /\ sgRes.res.kind = "value"

\* C26 as stated: siegert1 returns 0 where y_th >= 20, whatever tau_m, tau_r and
\* V_0 are, and 1 / (tau_r + tau_m * exp(y_th^2) * integral) where y_th < 20:
\* one of the two is assigned and returned for every comparable y_th
C26_Original ==
    (sgRes.fn = "nu_0" /\ sgRes.res.by = "siegert1") =>
        /\ Y_th_ge_20 =>
              sgRes.res = [kind |-> "value", by |-> "siegert1", out |-> Frac(0, 1)]
        /\ ~Y_th_ge_20 =>
              sgRes.res = [kind |-> "value", by |-> "siegert1",
                           out |-> Frac(1, FlAdd(sgArgs.tau_r,
                                                 sgArgs.quad * sgArgs.tau_m))]

\* C27 as stated: the bracket searches of siegert1 and of siegert2 come to an
\* end for every input with sigma > 0 and V_th > V_0, y_th = 0
\* (mu = V_th = 0) included
C27_Original ==
    (/\ sgRes.fn = "nu_0"
     /\ sgArgs.sigma > 0
     /\ sgArgs.V_th_rel > sgArgs.V_0_rel) =>
        /\ sgRes.res.kind # "hang"
        /\ sgRes.res2.kind # "hang"

----------------------------------------------------------------------------
(* meanfield_calcs: transfer_function_1p_taylor, transfer_function_1p_shift,*)
(* transfer_function                                                       *)
(*                                                                         *)
(* Voltages are integers in 0.01 mV, frequencies integers in Hz.  The      *)
(* parabolic cylinder function is not evaluated: Psi_x_r, dPsi_x_r and     *)
(* d2Psi_x_r are the differences they are, of which the model knows the    *)
(* arguments and whether the two terms are the same term (x = y, then the  *)
(* difference is 0).  A result is a record: kind "value" with the factors  *)
(* of the returned product, kind "nan" where a division by 0 made it       *)
(* nan/inf, kind "TypeError" or "hang" where the call does not return.     *)

MaxPop == 2
MaxFreq == 2
AlphaHalfPct == 103

TypeError == [kind |-> "TypeError"]
d_nu_d_mu_params == <<"tau_m", "tau_r", "V_th_rel", "V_0_rel", "mu", "sigma">>
d_nu_d_mu_fb433_params ==
    <<"tau_m", "tau_s", "tau_r", "V_th_rel", "V_0_rel", "mu", "sigma">>

\* a call of a function of the given parameters with positional arguments
d_nu_d_mu(args) ==
    IF Len(args) # Len(d_nu_d_mu_params) THEN TypeError
    ELSE [kind |-> "value", fn |-> "d_nu_d_mu", args |-> args]
d_nu_d_mu_fb433(args) ==
    IF Len(args) # Len(d_nu_d_mu_fb433_params) THEN TypeError
    ELSE [kind |-> "value", fn |-> "d_nu_d_mu_fb433", args |-> args]

Psi_x_r(z, x, y) == [zero |-> x = y, fn |-> "Psi", z |-> z, x |-> x, y |-> y]
dPsi_x_r(z, x, y) == [zero |-> x = y, fn |-> "d_Psi", z |-> z, x |-> x, y |-> y]
d2Psi_x_r(z, x, y) == [zero |-> x = y, fn |-> "d_2_Psi", z |-> z, x |-> x, y |-> y]

\* sigma * alpha / 2. * np.sqrt(tau_s / tau_m), alpha / 2 = 1.03
ThresholdShift(sigma, tau_s, tau_m) ==
    (sigma * AlphaHalfPct * SqrtFrom(tau_s \div tau_m, 0)) \div 100

\* quad(integrand, ...)[0] of siegert1 and siegert2: 0 where y_th = y_r makes
\* the integrand 0 everywhere, else the positive number quad
QuadOf(V_th_rel, V_0_rel, quad) == IF V_th_rel = V_0_rel THEN 0 ELSE quad

transfer_function_1p_taylor(mu, sigma, tau_m, tau_s, tau_r, V_th_rel, V_0_rel, omega, quad, tie) ==
    IF omega = 0
    THEN d_nu_d_mu_fb433(<<tau_m, tau_s, tau_r, V_th_rel, V_0_rel, mu, sigma>>)
    ELSE LET q == QuadOf(V_th_rel, V_0_rel, quad)
             nu0 == nu_0(tau_m, tau_r, V_th_rel, V_0_rel, mu, sigma, q)
             nu0_fb == nu0_fb433(tau_m, tau_s, tau_r, V_th_rel, V_0_rel, mu,
                                 sigma, q, tie)
             x_t == <<V_th_rel - mu, sigma>>
             x_r == <<V_0_rel - mu, sigma>>
             z == omega * tau_m
             a0 == Psi_x_r(z, x_t, x_r)
             a1 == [num |-> dPsi_x_r(z, x_t, x_r), den |-> a0]
             a3 == [A |-> <<tau_m, nu0, tau_s>>, nu0_fb |-> nu0_fb, a1 |-> a1,
                    num |-> d2Psi_x_r(z, x_t, x_r), den |-> a0]
         IN  IF nu0.kind = "hang" THEN nu0
             ELSE IF a0.zero \/ FracZero(nu0_fb.r) \/ nu0_fb.r.den = 0
                  THEN [kind |-> "nan"]
                  ELSE [kind |-> "value", fn |-> "taylor", sigma |-> sigma,
                        nu |-> nu0_fb, z |-> z, a1 |-> a1, a3 |-> a3]

transfer_function_1p_shift(mu, sigma, tau_m, tau_s, tau_r, V_th_rel, V_0_rel, omega, quad) ==
    LET V_th_eff == V_th_rel + ThresholdShift(sigma, tau_s, tau_m)
        V_0_eff == V_0_rel + ThresholdShift(sigma, tau_s, tau_m)
    IN  IF omega = 0
        THEN d_nu_d_mu(<<tau_m, tau_s, tau_r, V_th_eff, V_0_eff, mu, sigma>>)
        ELSE LET nu == nu_0(tau_m, tau_r, V_th_eff, V_0_eff, mu, sigma,
                            QuadOf(V_th_eff, V_0_eff, quad))
                 x_t == <<V_th_eff - mu, sigma>>
                 x_r == <<V_0_eff - mu, sigma>>
                 z == omega * tau_m
                 frac == [num |-> dPsi_x_r(z, x_t, x_r),
                          den |-> Psi_x_r(z, x_t, x_r)]
             IN  IF nu.kind = "hang" THEN nu
                 ELSE IF frac.den.zero \/ nu.out.den = 0
                      THEN [kind |-> "nan"]
                      ELSE [kind |-> "value", fn |-> "shift", sigma |-> sigma,
                            nu |-> nu.out, z |-> z, frac |-> frac]

\* the first call of the nested comprehension, in the order the calls are
\* made, that does not return; "none" if all return
RECURSIVE FirstAbort(_, _, _)
FirstAbort(tfs, m, i) ==
    IF m > Len(tfs) THEN [kind |-> "none"]
    ELSE IF i > Len(tfs[m]) THEN FirstAbort(tfs, m + 1, 1)
    ELSE IF tfs[m][i].kind \in {"TypeError", "hang"} THEN tfs[m][i]
    ELSE FirstAbort(tfs, m, i + 1)

transfer_function(mu, sigma, tau_m, tau_s, tau_r, V_th_rel, V_0_rel, dimension, omegas, quad) ==
    LET transfer_functions ==
            [m \in 1..Len(omegas) |-> [i \in 1..dimension |->
                transfer_function_1p_shift(mu[i], sigma[i], tau_m, tau_s, tau_r,
                                           V_th_rel, V_0_rel, omegas[m], quad)]]
        abort == FirstAbort(transfer_functions, 1, 1)
    IN  IF abort.kind # "none" THEN abort
        ELSE [kind |-> "value", out |-> transfer_functions]

OmegaVals == {0, 1, 2}
OmegaGrids == UNION { [1..M -> OmegaVals] : M \in 1..MaxFreq }

\* the calls for d populations
TFArgs(d) ==
    { [dimension |-> d, mu |-> m, sigma |-> [i \in 1..d |-> sg],
       tau_m |-> 10, tau_s |-> ts, tau_r |-> 2,
       V_th_rel |-> 1500, V_0_rel |-> v0, omegas |-> w, quad |-> q,
       tie |-> t] :
         m \in [1..d -> {500, 1000}],
         sg \in {100, 200}, ts \in {0, 10}, v0 \in {0, 1500},
         w \in OmegaGrids, q \in {1, 3}, t \in BOOLEAN }

InitTF ==
    /\ IdleFR /\ IdleSG /\ IdlePS /\ IdleExt
    /\ \E d \in 1..MaxPop : tfArgs \in TFArgs(d)
    /\ tfRes = NoCall

Call_transfer_function_1p_taylor ==
    /\ tfRes = NoCall
    /\ \E i \in 1..tfArgs.dimension, m \in 1..Len(tfArgs.omegas) :
          tfRes' = [fn |-> "transfer_function_1p_taylor", i |-> i, m |-> m,
                    res |-> transfer_function_1p_taylor(
                        tfArgs.mu[i], tfArgs.sigma[i], tfArgs.tau_m,
                        tfArgs.tau_s, tfArgs.tau_r, tfArgs.V_th_rel,
                        tfArgs.V_0_rel, tfArgs.omegas[m], tfArgs.quad,
                        tfArgs.tie)]
    /\ UNCHANGED <<tfArgs, varsFR, varsSG, varsPS, varsExt>>

Call_transfer_function_1p_shift ==
    /\ tfRes = NoCall
    /\ \E i \in 1..tfArgs.dimension, m \in 1..Len(tfArgs.omegas) :
          tfRes' = [fn |-> "transfer_function_1p_shift", i |-> i, m |-> m,
                    res |-> transfer_function_1p_shift(
                        tfArgs.mu[i], tfArgs.sigma[i], tfArgs.tau_m,
                        tfArgs.tau_s, tfArgs.tau_r, tfArgs.V_th_rel,
                        tfArgs.V_0_rel, tfArgs.omegas[m], tfArgs.quad)]
    /\ UNCHANGED <<tfArgs, varsFR, varsSG, varsPS, varsExt>>

Call_transfer_function ==
    /\ tfRes = NoCall
    /\ tfRes' = [fn |-> "transfer_function", i |-> 0, m |-> 0,
                 res |-> transfer_function(
                     tfArgs.mu, tfArgs.sigma, tfArgs.tau_m, tfArgs.tau_s,
                     tfArgs.tau_r, tfArgs.V_th_rel, tfArgs.V_0_rel,
                     tfArgs.dimension, tfArgs.omegas, tfArgs.quad)]
    /\ UNCHANGED <<tfArgs, varsFR, varsSG, varsPS, varsExt>>

NextTF ==
    \/ Call_transfer_function_1p_taylor
    \/ Call_transfer_function_1p_shift
    \/ Call_transfer_function

SpecTF == InitTF /\ [][NextTF]_vars

----------------------------------------------------------------------------
(* Claims about the transfer function *)

\* the value of the shift variant for population i at omegas[m]
ShiftAt(i, m) ==
    transfer_function_1p_shift(
        tfArgs.mu[i], tfArgs.sigma[i], tfArgs.tau_m, tfArgs.tau_s, tfArgs.tau_r,
        tfArgs.V_th_rel, tfArgs.V_0_rel, tfArgs.omegas[m], tfArgs.quad)

\* C6: transfer_function returns an N x M matrix, populations on the first
\* axis and frequencies on the second, with result[i][m] the value of
\* transfer_function_1p_shift for population i at omegas[m]
C6_Original ==
    (tfRes.fn = "transfer_function" /\ tfRes.res.kind = "value") =>
        /\ Len(tfRes.res.out) = tfArgs.dimension
        /\ \A i \in 1..Len(tfRes.res.out) :
              /\ Len(tfRes.res.out[i]) = Len(tfArgs.omegas)
              /\ \A m \in 1..Len(tfRes.res.out[i]) :
                    tfRes.res.out[i][m] = ShiftAt(i, m)

\* C7: transfer_function_1p_shift returns a value at omega = 0, the derivative
\* d_nu_d_mu at the shifted threshold and reset, and transfer_function
\* returns on a frequency grid that contains 0
C7_Original ==
    /\ (tfRes.fn = "transfer_function_1p_shift"
            /\ tfArgs.omegas[tfRes.m] = 0) =>
          (tfRes.res.kind = "value" /\ tfRes.res.fn = "d_nu_d_mu")
    /\ (tfRes.fn = "transfer_function"
            /\ \E m \in 1..Len(tfArgs.omegas) : tfArgs.omegas[m] = 0) =>
          tfRes.res.kind = "value"

\* C8: where Psi_x_r is 0 (threshold equal to reset) at omega # 0, both
\* variants report a numerical-degeneracy error and return no nan/inf
C8_Original ==
    (/\ tfRes.fn \in {"transfer_function_1p_taylor", "transfer_function_1p_shift"}
     /\ tfArgs.omegas[tfRes.m] # 0
     /\ tfArgs.V_th_rel = tfArgs.V_0_rel) =>
        tfRes.res.kind = "degeneracy_error"

----------------------------------------------------------------------------
(* meanfield_calcs: power_spectra, sensitivity_measure                     *)
(*                                                                         *)
(* A complex number is the exact fraction (re + i * im) / den with integer *)
(* re, im and den > 0, in lowest terms.  A matrix is a sequence of rows.   *)

RECURSIVE GCD(_, _)
GCD(a, b) == IF b = 0 THEN a ELSE GCD(b, a % b)

Cx(re, im, den) ==
    LET g == GCD(GCD(Abs(re), Abs(im)), den)
    IN  [re |-> re \div g, im |-> im \div g, den |-> den \div g]
CInt(re, im) == [re |-> re, im |-> im, den |-> 1]
CZero == CInt(0, 0)
COne == CInt(1, 0)
CIsZero(a) == a.re = 0 /\ a.im = 0
CAdd(a, b) ==
    Cx(a.re * b.den + b.re * a.den, a.im * b.den + b.im * a.den, a.den * b.den)
CNeg(a) == [re |-> -a.re, im |-> -a.im, den |-> a.den]
CSub(a, b) == CAdd(a, CNeg(b))
CMul(a, b) ==
    Cx(a.re * b.re - a.im * b.im, a.re * b.im + a.im * b.re, a.den * b.den)
conjugate(a) == [re |-> a.re, im |-> -a.im, den |-> a.den]
\* a / b for b # 0
CDiv(a, b) ==
    LET n == CMul(CInt(a.re, a.im), CInt(b.re, -b.im))
    IN  Cx(n.re * b.den, n.im * b.den, a.den * (b.re * b.re + b.im * b.im))
\* np.absolute: exact for a real number, else rounded down to a real fraction
absolute(a) ==
    IF a.im = 0 THEN [re |-> Abs(a.re), im |-> 0, den |-> a.den]
    ELSE [re |-> SqrtFrom(a.re * a.re + a.im * a.im, 0), im |-> 0, den |-> a.den]
\* |a|^2 < |b|^2, which is |a| < |b|
AbsLess(a, b) ==
    (a.re * a.re + a.im * a.im) * b.den * b.den
        < (b.re * b.re + b.im * b.im) * a.den * a.den

RECURSIVE CSumFrom(_, _)
CSumFrom(q, k) == IF k > Len(q) THEN CZero ELSE CAdd(q[k], CSumFrom(q, k + 1))
CSum(q) == CSumFrom(q, 1)

\* an array is a sequence whose elements are values: array(f) is the
\* function f as such a sequence
array(f) == f \o <<>>
identity(n) ==
    array([i \in 1..n |-> array([j \in 1..n |-> IF i = j THEN COne ELSE CZero])])
transpose(A) ==
    array([j \in 1..Len(A[1]) |-> array([i \in 1..Len(A) |-> A[i][j]])])
MatConj(A) ==
    array([i \in 1..Len(A) |-> array([j \in 1..Len(A[i]) |-> conjugate(A[i][j])])])
MatSub(A, B) ==
    array([i \in 1..Len(A) |->
        array([j \in 1..Len(A[i]) |-> CSub(A[i][j], B[i][j])])])
\* the elementwise product A * B of numpy arrays
MatTimes(A, B) ==
    array([i \in 1..Len(A) |->
        array([j \in 1..Len(A[i]) |-> CMul(A[i][j], B[i][j])])])
dot(A, B) ==
    array([i \in 1..Len(A) |-> array([j \in 1..Len(B[1]) |->
        CSum(array([k \in 1..Len(B) |-> CMul(A[i][k], B[k][j])]))])])
diag(A) == array([i \in 1..Len(A) |-> A[i][i]])

Minor(A, r, c) ==
    array([i \in 1..(Len(A) - 1) |-> array([j \in 1..(Len(A) - 1) |->
        A[IF i < r THEN i ELSE i + 1][IF j < c THEN j ELSE j + 1]])])
RECURSIVE Det(_)
Det(A) ==
    IF Len(A) = 1 THEN A[1][1]
    ELSE CSum(array([j \in 1..Len(A) |->
            CMul(IF j % 2 = 1 THEN A[1][j] ELSE CNeg(A[1][j]),
                 Det(Minor(A, 1, j)))]))
Cofactor(A, i, j) ==
    IF Len(A) = 1 THEN COne
    ELSE IF (i + j) % 2 = 0 THEN Det(Minor(A, i, j))
         ELSE CNeg(Det(Minor(A, i, j)))
\* np.linalg.inv: raises LinAlgError for a singular matrix
Singular(A) == CIsZero(Det(A))
Adjugate(A, det) ==
    array([i \in 1..Len(A) |->
        array([j \in 1..Len(A) |-> CDiv(Cofactor(A, j, i), det)])])
inv(A) == Adjugate(A, Det(A))

LinAlgError == [kind |-> "LinAlgError"]

\* np.hstack of n copies of a vector, reshape(n, n)
hstack(v, n) == array([k \in 1..(n * Len(v)) |-> v[((k - 1) % Len(v)) + 1]])
reshape(flat, n) ==
    array([r \in 1..n |-> array([c \in 1..n |-> flat[(r - 1) * n + c]])])

\* the caller's array after transfer_function = np.conjugate(transfer_function)
\* wrote the conjugate into the array it was given
conjugated_in_place(transfer_function_m, omega) ==
    IF omega < 0
    THEN array([i \in 1..Len(transfer_function_m) |-> conjugate(transfer_function_m[i])])
    ELSE transfer_function_m
\* the caller's array after a single-frequency computation:
\* np.conjugate returns a new array, which the assignment binds to the
\* local name transfer_function
transfer_function_after_call(transfer_function_m, omega) == transfer_function_m

\* H without the final np.transpose: the reshaped rows, H[i][j] = tf[j]
TransferMatrixByColumn(tau_m, tau_s, transfer_function_m, dimension, omega) ==
    LET tf == IF omega < 0
              THEN array([i \in 1..Len(transfer_function_m) |->
                        conjugate(transfer_function_m[i])])
              ELSE transfer_function_m
        H == array([i \in 1..Len(tf) |->
                 CDiv(CMul(CInt(tau_m, 0), tf[i]), CInt(1, omega * tau_s))])
    IN  reshape(hstack(H, dimension), dimension)

\* H of power_spectra_single_freq and of sensitivity_measure
TransferMatrix(tau_m, tau_s, transfer_function_m, dimension, omega) ==
    LET tf == IF omega < 0
              THEN array([i \in 1..Len(transfer_function_m) |->
                        conjugate(transfer_function_m[i])])
              ELSE transfer_function_m
        H == array([i \in 1..Len(tf) |->
                 CDiv(CMul(CInt(tau_m, 0), tf[i]), CInt(1, omega * tau_s))])
    IN  transpose(reshape(hstack(H, dimension), dimension))

power_spectra_single_freq(tau_m, tau_s, transfer_function_m, dimension, J, K, delay_dist_matrix_m, firing_rates, N, omega) ==
    LET H == TransferMatrix(tau_m, tau_s, transfer_function_m, dimension, omega)
        MH == MatTimes(MatTimes(MatTimes(H, J), K), delay_dist_matrix_m)
        IMH == MatSub(identity(dimension), MH)
        Q == inv(IMH)
        D == array([i \in 1..dimension |-> array([j \in 1..dimension |->
                 CDiv(CMul(identity(dimension)[i][j], CInt(firing_rates[j], 0)),
                      CInt(N[j], 0))])])
        C == dot(Q, dot(D, transpose(MatConj(Q))))
    IN  IF Singular(IMH) THEN LinAlgError
        ELSE [kind |-> "value",
              spec |-> array([i \in 1..dimension |-> absolute(diag(C)[i])])]

RECURSIVE FirstError(_, _)
FirstError(power, m) ==
    IF m > Len(power) THEN [kind |-> "none"]
    ELSE IF power[m].kind # "value" THEN power[m]
    ELSE FirstError(power, m + 1)

PowerByFrequency(tau_m, tau_s, dimension, J, K, delay_dist_matrix, N, firing_rates, transfer_function_in, omegas) ==
    array([m \in 1..Len(omegas) |->
        power_spectra_single_freq(tau_m, tau_s, transfer_function_in[m],
                                  dimension, J, K, delay_dist_matrix[m],
                                  firing_rates, N, omegas[m])])

\* power_spectra without the final np.transpose: frequency by population
power_spectra_untransposed(tau_m, tau_s, dimension, J, K, delay_dist_matrix, N, firing_rates, transfer_function_in, omegas) ==
    LET power == PowerByFrequency(tau_m, tau_s, dimension, J, K,
                                  delay_dist_matrix, N, firing_rates,
                                  transfer_function_in, omegas)
    IN  IF FirstError(power, 1).kind # "none" THEN FirstError(power, 1)
        ELSE [kind |-> "value",
              out |-> array([m \in 1..Len(power) |-> power[m].spec])]

power_spectra(tau_m, tau_s, dimension, J, K, delay_dist_matrix, N, firing_rates, transfer_function_in, omegas) ==
    LET power == PowerByFrequency(tau_m, tau_s, dimension, J, K,
                                  delay_dist_matrix, N, firing_rates,
                                  transfer_function_in, omegas)
    IN  IF FirstError(power, 1).kind # "none" THEN FirstError(power, 1)
        ELSE [kind |-> "value",
              out |-> transpose(array([m \in 1..Len(power) |-> power[m].spec]))]

\* np.linalg.eig of a diagonal matrix: the eigenvalues are the diagonal
\* entries and the eigenvectors the unit vectors, as columns of U, in the
\* order the solver puts them: order[k] is the diagonal position of pair k
IsDiagonal(A) ==
    \A i, j \in 1..Len(A) : i # j => CIsZero(A[i][j])
eig(A, order) ==
    [e |-> array([k \in 1..Len(A) |-> A[order[k]][order[k]]]),
     U |-> array([i \in 1..Len(A) |-> array([k \in 1..Len(A) |->
               IF i = order[k] THEN COne ELSE CZero])])]

\* np.argmin with the last index of the smallest distance
RECURSIVE ArgminLastFrom(_, _, _)
ArgminLastFrom(d, k, best) ==
    IF k > Len(d) THEN best
    ELSE ArgminLastFrom(d, k + 1, IF AbsLess(d[best], d[k]) THEN best ELSE k)
argmin_last_on_ties(e) ==
    ArgminLastFrom(array([k \in 1..Len(e) |-> CSub(e[k], COne)]), 2, 1)

\* np.argmin(np.abs(e - 1)): the first index of the smallest distance
RECURSIVE ArgminFrom(_, _, _)
ArgminFrom(d, k, best) ==
    IF k > Len(d) THEN best
    ELSE ArgminFrom(d, k + 1, IF AbsLess(d[k], d[best]) THEN k ELSE best)
\* a selection by position: index 0 of the solver's list
first_index(e) == 1
argmin_abs_e_minus_1(e) ==
    ArgminFrom(array([k \in 1..Len(e) |-> CSub(e[k], COne)]), 2, 1)

sensitivity_measure(transfer_function_m, delay_dist_matrix_m, J, tau_m, tau_s, dimension, omega, order) ==
    LET H == TransferMatrix(tau_m, tau_s, transfer_function_m, dimension, omega)
        MH == MatTimes(MatTimes(H, J), delay_dist_matrix_m)
        eU == eig(MH, order)
        U_inv == inv(eU.U)
        index == argmin_abs_e_minus_1(eU.e)
        column == array([i \in 1..dimension |-> eU.U[i][index]])
        norm == CSum(array([k \in 1..dimension |->
                    CMul(U_inv[index][k], column[k])]))
        outer == array([i \in 1..dimension |-> array([j \in 1..dimension |->
                     CMul(U_inv[index][i], column[j])])])
        T == array([i \in 1..dimension |-> array([j \in 1..dimension |->
                 CMul(CDiv(outer[i][j], norm), MH[i][j])])])
    IN  [kind |-> "value", T |-> T, index |-> index, e |-> eU.e,
         eigenvalue |-> eU.e[index], eigenvector |-> column]

\* MH of sensitivity_measure at one frequency
EffectiveConnectivity(transfer_function_m, delay_dist_matrix_m, J, tau_m, tau_s, dimension, omega) ==
    MatTimes(MatTimes(TransferMatrix(tau_m, tau_s, transfer_function_m, dimension, omega), J), delay_dist_matrix_m)

\* a mode index as a caller gives it: None, or the position k of a pair
NoIndex == [given |-> FALSE, k |-> 0]
GivenIndex(k) == [given |-> TRUE, k |-> k]

\* a call of meanfield_calcs.sensitivity_measure with positional arguments
sensitivity_measure_params == <<"transfer_function", "delay_dist_matrix", "J", "tau_m", "tau_s", "dimension", "omega">>
sensitivity_measure_call(args, order) ==
    IF Len(args) # Len(sensitivity_measure_params) THEN TypeError
    ELSE sensitivity_measure(args[1], args[2], args[3], args[4], args[5], args[6], args[7], order)

\* Circuit.get_sensitivity_measure without the keyword: always the search
get_sensitivity_measure_search(MH, index, order) ==
    LET eU == eig(MH, order)
        U_inv == inv(eU.U)
        k == argmin_abs_e_minus_1(eU.e)
        column == array([i \in 1..Len(MH) |-> eU.U[i][k]])
        norm == CSum(array([l \in 1..Len(MH) |-> CMul(U_inv[k][l], column[l])]))
        T == array([i \in 1..Len(MH) |-> array([j \in 1..Len(MH) |->
                 CMul(CDiv(CMul(U_inv[k][i], column[j]), norm), MH[i][j])])])
    IN  [kind |-> "value", T |-> T, index |-> k, e |-> eU.e,
         eigenvalue |-> eU.e[k], eigenvector |-> column]

\* Circuit.get_sensitivity_measure on MH = get_effective_connectivity(freq)
get_sensitivity_measure(MH, index, order) ==
    LET eU == eig(MH, order)
        U_inv == inv(eU.U)
        k == IF index.given THEN index.k ELSE argmin_abs_e_minus_1(eU.e)
        column == array([i \in 1..Len(MH) |-> eU.U[i][k]])
        norm == CSum(array([l \in 1..Len(MH) |-> CMul(U_inv[k][l], column[l])]))
        T == array([i \in 1..Len(MH) |-> array([j \in 1..Len(MH) |->
                 CMul(CDiv(CMul(U_inv[k][i], column[j]), norm), MH[i][j])])])
    IN  [kind |-> "value", T |-> T, index |-> k, e |-> eU.e,
         eigenvalue |-> eU.e[k], eigenvector |-> column]

\* np.linalg.eig of a diagonal matrix with the eigenvectors as the solver
\* may scale them: column k of vr is phase[k] times the unit vector of the
\* diagonal position order[k]
eig_scaled(A, order, phase) ==
    [e |-> array([k \in 1..Len(A) |-> A[order[k]][order[k]]]),
     U |-> array([i \in 1..Len(A) |-> array([k \in 1..Len(A) |->
               IF i = order[k] THEN phase[k] ELSE CZero])])]

UnboundLocalError == [kind |-> "UnboundLocalError"]
MatrixTags == {"MH", "prop", "prop_inv"}
QuantityTags == {"eigvals", "reigvecs", "leigvecs"}

\* the decomposition that eigen_spectra_single_freq returns
Decomposition(eU) ==
    [kind |-> "value", eig |-> eU.e, vr_T |-> transpose(eU.U), vl |-> inv(eU.U)]

\* eigen_spectra_single_freq returning vr instead of its transpose
eigen_spectra_single_freq_columns(tau_m, tau_s, transfer_function_m, dimension, delay_dist_matrix_m, J, omega, matrix, order, phase) ==
    LET MH == EffectiveConnectivity(transfer_function_m, delay_dist_matrix_m, J, tau_m, tau_s, dimension, omega)
        eU == eig_scaled(MH, order, phase)
    IN  [kind |-> "value", eig |-> eU.e, vr_T |-> eU.U, vl |-> inv(eU.U)]

\* eigen_spectra_single_freq with a final else: a tag that is neither MH nor
\* prop is taken as prop_inv
eigen_spectra_single_freq_else(tau_m, tau_s, transfer_function_m, dimension, delay_dist_matrix_m, J, omega, matrix, order, phase) ==
    LET MH == EffectiveConnectivity(transfer_function_m, delay_dist_matrix_m, J, tau_m, tau_s, dimension, omega)
        IMH == MatSub(identity(dimension), MH)
        Q == inv(IMH)
        P == dot(Q, MH)
    IN  IF matrix = "MH" THEN Decomposition(eig_scaled(MH, order, phase))
        ELSE IF Singular(IMH) THEN LinAlgError
        ELSE IF matrix = "prop" THEN Decomposition(eig_scaled(P, order, phase))
        ELSE IF Singular(P) THEN LinAlgError
        ELSE Decomposition(eig_scaled(inv(P), order, phase))

eigen_spectra_single_freq(tau_m, tau_s, transfer_function_m, dimension, delay_dist_matrix_m, J, omega, matrix, order, phase) ==
    LET MH == EffectiveConnectivity(transfer_function_m, delay_dist_matrix_m, J, tau_m, tau_s, dimension, omega)
        IMH == MatSub(identity(dimension), MH)
        Q == inv(IMH)
        P == dot(Q, MH)
    IN  IF matrix = "MH" THEN Decomposition(eig_scaled(MH, order, phase))
        ELSE IF Singular(IMH) THEN LinAlgError
        ELSE IF matrix = "prop" THEN Decomposition(eig_scaled(P, order, phase))
        ELSE IF matrix = "prop_inv"
             THEN IF Singular(P) THEN LinAlgError
                  ELSE Decomposition(eig_scaled(inv(P), order, phase))
        ELSE UnboundLocalError

\* eigen_spectra: orders[m] and phases[m] are the solver's order and scaling
\* of the pairs at omegas[m]
eigen_spectra(tau_m, tau_s, transfer_function_in, dimension, delay_dist_matrix, J, omegas, quantity, matrix, orders, phases) ==
    LET single == array([m \in 1..Len(omegas) |->
                      eigen_spectra_single_freq(tau_m, tau_s,
                          transfer_function_in[m], dimension,
                          delay_dist_matrix[m], J, omegas[m], matrix,
                          orders[m], phases[m])])
    IN  IF quantity \notin QuantityTags THEN UnboundLocalError
        ELSE IF FirstError(single, 1).kind # "none" THEN FirstError(single, 1)
        ELSE [kind |-> "value",
              out |-> array([m \in 1..Len(omegas) |->
                          CASE quantity = "eigvals" -> single[m].eig
                            [] quantity = "reigvecs" -> single[m].vr_T
                            [] quantity = "leigvecs" -> single[m].vl])]

TFProfiles == <<"one", "pair", "ramp">>
TFProfile(name, dim) ==
    [i \in 1..dim |->
        CASE name = "one" -> CInt(1, 0)
          [] name = "pair" -> IF i % 2 = 1 THEN CInt(1, 1) ELSE CInt(1, -1)
          [] name = "ramp" -> CInt(0, i)]
JPatterns == {"diag", "full"}
JPattern(name, dim) ==
    [i \in 1..dim |-> [j \in 1..dim |->
        IF name = "full" \/ i = j THEN COne ELSE CZero]]
Uniform(dim, x) == [i \in 1..dim |-> [j \in 1..dim |-> x]]
SolverOrders(n) ==
    { f \in [1..n -> 1..n] : \A i, j \in 1..n : f[i] = f[j] => i = j }
DiagonalOrder(n) == [k \in 1..n |-> k]
\* the solver's orders over a grid of M frequencies: one order at every
\* frequency, or that order and its reverse in turn
SolverRuns(n, M) ==
    { [m \in 1..M |-> [k \in 1..n |->
          IF alt /\ m % 2 = 0 THEN o[n + 1 - k] ELSE o[k]]] :
        o \in SolverOrders(n), alt \in BOOLEAN }
\* the solver's scaling of the eigenvectors: unit length, any phase
SolverPhases(n) ==
    { [k \in 1..n |-> IF k = 1 THEN c ELSE COne] : c \in {COne, CInt(0, 1)} }

\* the calls for d populations and a grid of M frequencies: the grid is
\* 1, 2, ... or -1, -2, ... or 0, 0, ..., the transfer function takes the profiles in
\* turn from one frequency to the next
PSArgs(d, M) ==
    { [dimension |-> d, omegas |-> [m \in 1..M |-> sign * m],
       tau_m |-> 1, tau_s |-> ts,
       transfer_function |->
           [m \in 1..M |-> TFProfile(TFProfiles[((first + m) % 3) + 1], d)],
       J |-> JPattern(jp, d),
       K |-> Uniform(d, IF jp = "full" THEN CInt(2, 0) ELSE COne),
       delay_dist_matrix |-> [m \in 1..M |-> Uniform(d, dl)],
       N |-> [i \in 1..d |-> 2],
       firing_rates |-> [i \in 1..d |-> IF rp THEN i ELSE 1]] :
         sign \in {-1, 0, 1}, first \in 1..3, jp \in JPatterns,
         dl \in {CInt(1, 0), CInt(0, -1)}, ts \in {0, 1}, rp \in BOOLEAN }

InitPS ==
    /\ IdleFR /\ IdleSG /\ IdleTF /\ IdleExt
    /\ \E d \in 1..MaxPop, M \in 1..MaxFreq : psArgs \in PSArgs(d, M)
    /\ psRes = NoCall

Call_power_spectra ==
    /\ psRes = NoCall
    /\ psRes' = [fn |-> "power_spectra",
                 res |-> power_spectra(
                     psArgs.tau_m, psArgs.tau_s, psArgs.dimension, psArgs.J,
                     psArgs.K, psArgs.delay_dist_matrix, psArgs.N,
                     psArgs.firing_rates, psArgs.transfer_function,
                     psArgs.omegas)]
    /\ psArgs' = [psArgs EXCEPT !.transfer_function =
                      [m \in 1..Len(psArgs.omegas) |->
                          transfer_function_after_call(@[m], psArgs.omegas[m])]]
    /\ UNCHANGED <<varsFR, varsSG, varsTF, varsExt>>

\* sensitivity_measure at omegas[m], once with the solver's pairs in the
\* order of the diagonal (ref) and once in the order the solver chose (res)
Call_sensitivity_measure ==
    /\ psRes = NoCall
    /\ IsDiagonal(psArgs.J)
    /\ \E m \in 1..Len(psArgs.omegas), order \in SolverOrders(psArgs.dimension) :
          /\ psRes' = [fn |-> "sensitivity_measure", m |-> m, order |-> order,
                       res |-> sensitivity_measure(
                           psArgs.transfer_function[m],
                           psArgs.delay_dist_matrix[m], psArgs.J, psArgs.tau_m,
                           psArgs.tau_s, psArgs.dimension, psArgs.omegas[m],
                           order),
                       ref |-> sensitivity_measure(
                           psArgs.transfer_function[m],
                           psArgs.delay_dist_matrix[m], psArgs.J, psArgs.tau_m,
                           psArgs.tau_s, psArgs.dimension, psArgs.omegas[m],
                           DiagonalOrder(psArgs.dimension))]
          /\ psArgs' = [psArgs EXCEPT !.transfer_function[m] =
                            transfer_function_after_call(@, psArgs.omegas[m])]
    /\ UNCHANGED <<varsFR, varsSG, varsTF, varsExt>>

\* meanfield_calcs.sensitivity_measure called with a mode index as an
\* eighth argument
Call_sensitivity_measure_with_index ==
    /\ psRes = NoCall
    /\ IsDiagonal(psArgs.J)
    /\ \E m \in 1..Len(psArgs.omegas), order \in SolverOrders(psArgs.dimension), k \in 1..psArgs.dimension :
          psRes' = [fn |-> "sensitivity_measure_with_index", m |-> m,
                    order |-> order, index |-> GivenIndex(k),
                    res |-> sensitivity_measure_call(
                        <<psArgs.transfer_function[m],
                          psArgs.delay_dist_matrix[m], psArgs.J, psArgs.tau_m,
                          psArgs.tau_s, psArgs.dimension, psArgs.omegas[m],
                          GivenIndex(k)>>, order)]
    /\ UNCHANGED <<psArgs, varsFR, varsSG, varsTF, varsExt>>

\* Circuit.get_sensitivity_measure at omegas[m], with or without a mode index
Call_get_sensitivity_measure ==
    /\ psRes = NoCall
    /\ IsDiagonal(psArgs.J)
    /\ \E m \in 1..Len(psArgs.omegas), order \in SolverOrders(psArgs.dimension), index \in {NoIndex} \cup {GivenIndex(k) : k \in 1..psArgs.dimension} :
          psRes' = [fn |-> "get_sensitivity_measure", m |-> m,
                    order |-> order, index |-> index,
                    res |-> get_sensitivity_measure(
                        EffectiveConnectivity(
                            psArgs.transfer_function[m],
                            psArgs.delay_dist_matrix[m], psArgs.J, psArgs.tau_m,
                            psArgs.tau_s, psArgs.dimension, psArgs.omegas[m]),
                        index, order)]
    /\ UNCHANGED <<psArgs, varsFR, varsSG, varsTF, varsExt>>

\* eigen_spectra on the whole grid for a pair of tags
Call_eigen_spectra ==
    /\ psRes = NoCall
    /\ IsDiagonal(psArgs.J)
    /\ \E quantity \in QuantityTags \cup {"other"}, matrix \in MatrixTags \cup {"other"}, orders \in SolverRuns(psArgs.dimension, Len(psArgs.omegas)), phase \in SolverPhases(psArgs.dimension) :
          psRes' = [fn |-> "eigen_spectra", quantity |-> quantity,
                    matrix |-> matrix, orders |-> orders, phase |-> phase,
                    res |-> eigen_spectra(
                        psArgs.tau_m, psArgs.tau_s, psArgs.transfer_function,
                        psArgs.dimension, psArgs.delay_dist_matrix, psArgs.J,
                        psArgs.omegas, quantity, matrix, orders,
                        [m \in 1..Len(psArgs.omegas) |-> phase])]
    /\ psArgs' = [psArgs EXCEPT !.transfer_function =
                      [m \in 1..Len(psArgs.omegas) |->
                          transfer_function_after_call(@[m], psArgs.omegas[m])]]
    /\ UNCHANGED <<varsFR, varsSG, varsTF, varsExt>>

NextPS ==
    \/ Call_eigen_spectra
    \/ Call_power_spectra
    \/ Call_sensitivity_measure
    \/ Call_sensitivity_measure_with_index
    \/ Call_get_sensitivity_measure

SpecPS == InitPS /\ [][NextPS]_vars

(***************************************************************************)
(* delay_dist_matrix_single.  A frequency omega and a delay D enter only   *)
(* through the phase omega * D, counted here in quarter turns: omega is an *)
(* integer multiple of pi/2 per unit of delay, so exp(-i omega D) is one   *)
(* of 1, -i, -1, i.  An entry of the result is the product of three        *)
(* factors: b1 = exp(-i omega D); b0 = exp(-(Delay_sd omega)^2 / 2), kept  *)
(* as the integer (Delay_sd omega)^2; and the ratio (1 - a0) / (1 - a1) of *)
(* the truncated Gaussian, kept as the arguments that determine it.        *)
(***************************************************************************)
MaxDelay == 2
MaxDelaySd == 2
MaxOmega == 2

\* np.exp(-np.complex(0, omega) * Delay) for a phase of k quarter turns
exp_neg_i(k) ==
    CASE k % 4 = 0 -> CInt(1, 0)
      [] k % 4 = 1 -> CInt(0, -1)
      [] k % 4 = 2 -> CInt(-1, 0)
      [] k % 4 = 3 -> CInt(0, 1)
NoAttenuation == 0
NoTruncation == <<>>
DelayFactor(b0, b1, ratio) == [b0 |-> b0, b1 |-> b1, ratio |-> ratio]
None == [kind |-> "None"]

\* exp(+i omega D) in the branch of 'none'
delay_dist_matrix_single_advanced(dimension, Delay, Delay_sd, delay_dist, omega) ==
    [kind |-> "value",
     out |-> array([i \in 1..dimension |-> array([j \in 1..dimension |->
                 DelayFactor(NoAttenuation, exp_neg_i(-(omega * Delay[i][j])),
                             NoTruncation)])])]

delay_dist_matrix_single(dimension, Delay, Delay_sd, delay_dist, omega) ==
    IF delay_dist = "none"
    THEN [kind |-> "value",
          out |-> array([i \in 1..dimension |-> array([j \in 1..dimension |->
                      DelayFactor(NoAttenuation, exp_neg_i(omega * Delay[i][j]),
                                  NoTruncation)])])]
    ELSE IF delay_dist = "truncated_gaussian"
    THEN [kind |-> "value",
          out |-> array([i \in 1..dimension |-> array([j \in 1..dimension |->
                      DelayFactor((Delay_sd[i][j] * omega) * (Delay_sd[i][j] * omega),
                                  exp_neg_i(omega * Delay[i][j]),
                                  <<Delay[i][j], Delay_sd[i][j], omega>>)])])]
    ELSE IF delay_dist = "gaussian"
    THEN [kind |-> "value",
          out |-> array([i \in 1..dimension |-> array([j \in 1..dimension |->
                      DelayFactor((Delay_sd[i][j] * omega) * (Delay_sd[i][j] * omega),
                                  exp_neg_i(omega * Delay[i][j]), NoTruncation)])])]
    ELSE None

DelayDists == {"none", "truncated_gaussian", "gaussian", "other"}
\* delay matrices with entries in 0..MaxDelay, deviations in 1..MaxDelaySd
DelayMatrices(d) ==
    { [i \in 1..d |-> [j \in 1..d |-> (a * i + b * j) % (MaxDelay + 1)]] :
        a, b \in 0..MaxDelay }
DelaySdMatrices(d) ==
    { [i \in 1..d |-> [j \in 1..d |-> 1 + ((s + (IF i = j THEN 0 ELSE t)) % MaxDelaySd)]] :
        s \in 0..(MaxDelaySd - 1), t \in 0..1 }
DDArgs(d) ==
    { [dimension |-> d, Delay |-> D, Delay_sd |-> sd, delay_dist |-> dist, omega |-> omega] :
        D \in DelayMatrices(d), sd \in DelaySdMatrices(d), dist \in DelayDists,
        omega \in (-MaxOmega)..MaxOmega }

InitDD ==
    /\ IdleFR /\ IdleSG /\ IdleTF /\ IdlePS /\ IdleNW /\ IdleIO /\ IdleCC
    /\ \E d \in 1..MaxPop : ddArgs \in DDArgs(d)
    /\ ddRes = NoCall

Call_delay_dist_matrix_single ==
    /\ ddRes = NoCall
    /\ ddRes' = [fn |-> "delay_dist_matrix_single",
                 res |-> delay_dist_matrix_single(
                     ddArgs.dimension, ddArgs.Delay, ddArgs.Delay_sd,
                     ddArgs.delay_dist, ddArgs.omega)]
    /\ UNCHANGED <<ddArgs, varsFR, varsSG, varsTF, varsPS, varsNW, varsIO, varsCC>>

NextDD == Call_delay_dist_matrix_single

SpecDD == InitDD /\ [][NextDD]_vars

(***************************************************************************)
(* The results cache of Network.  network_params are one number (think of  *)
(* the in-degree K); a stored result is a record that names the key and    *)
(* the parameters it was computed from.  self.results starts as whatever   *)
(* the loader returned in __init__: any keys, computed from the parameters *)
(* of that moment.                                                         *)
(***************************************************************************)
MaxParam == 2
MaxInvocations == 2

ResultKeys == {"mu", "var"}
ResultOf(key, params) == [kind |-> "value", key |-> key, from |-> params]

\* meanfield_calcs.firing_rates called with positional arguments
firing_rates_params == <<"dimension", "tau_m", "tau_s", "tau_r", "V_0_rel", "V_th_rel", "K", "J", "j", "nu_ext", "K_ext">>
firing_rates_call(args) ==
    IF Len(args) # Len(firing_rates_params) THEN TypeError
    ELSE [kind |-> "value", key |-> "th_rates", from |-> args]

\* Network.firing_rates: meanfield_calcs.firing_rates()
Network_firing_rates == firing_rates_call(<<>>)

\* the functions that the decorator wraps: both begin with
\* nu = self.firing_rates()
Network_mean(params) ==
    IF Network_firing_rates.kind # "value" THEN Network_firing_rates
    ELSE ResultOf("mu", params)
Network_variance(params) ==
    IF Network_firing_rates.kind # "value" THEN Network_firing_rates
    ELSE ResultOf("var", params)
WrappedFunction(result_key, params) ==
    IF result_key = "mu" THEN Network_mean(params) ELSE Network_variance(params)

\* wrapper_check_results: what it returns, self.results afterwards, and
\* whether it invoked func
wrapper_check_results(results, result_key, params) ==
    IF result_key \in DOMAIN results
    THEN [ret |-> results[result_key], results |-> results, invoked |-> FALSE]
    ELSE LET new_result == WrappedFunction(result_key, params)
         IN  IF new_result.kind # "value"
             THEN [ret |-> new_result, results |-> results, invoked |-> TRUE]
             ELSE [ret |-> new_result,
                   results |-> [k \in DOMAIN results \cup {result_key} |->
                                   IF k = result_key THEN new_result ELSE results[k]],
                   invoked |-> TRUE]

InitNW ==
    /\ IdleFR /\ IdleSG /\ IdleTF /\ IdlePS /\ IdleDD /\ IdleIO /\ IdleCC
    /\ nwParams \in 0..MaxParam
    /\ \E loaded \in SUBSET ResultKeys :
          nwResults = [k \in loaded |-> ResultOf(k, nwParams)]
    /\ nwCall = NoCall
    /\ nwInvoked = [k \in ResultKeys |-> 0]

\* a call of the method stored under result_key: mean or variance
CallCached(fn, result_key) ==
    /\ nwInvoked[result_key] < MaxInvocations
    /\ LET w == wrapper_check_results(nwResults, result_key, nwParams)
       IN  /\ nwResults' = w.results
           /\ nwCall' = [fn |-> fn, key |-> result_key, params |-> nwParams,
                         hit |-> result_key \in DOMAIN nwResults,
                         before |-> nwResults, res |-> w.ret]
           /\ nwInvoked' = [nwInvoked EXCEPT ![result_key] =
                               IF w.invoked THEN @ + 1 ELSE @]
    /\ UNCHANGED <<nwParams, varsFR, varsSG, varsTF, varsPS, varsDD, varsIO, varsCC>>
Call_mean == CallCached("mean", "mu")
Call_variance == CallCached("variance", "var")

\* the owner of the Network assigns other network parameters
SetNetworkParams ==
    /\ \E p \in 0..MaxParam : p # nwParams /\ nwParams' = p
    /\ UNCHANGED <<nwResults, nwCall, nwInvoked, varsFR, varsSG, varsTF, varsPS, varsDD, varsIO, varsCC>>

NextNW == Call_mean \/ Call_variance \/ SetNetworkParams

SpecNW == InitNW /\ [][NextNW]_vars

(***************************************************************************)
(* save and load_from_h5.  A dictionary is a function from keys to values; *)
(* a value is a record with its Python type in the field t.  A string that *)
(* enters a hash is a tuple of characters, so that the concatenation of    *)
(* create_hash is the concatenation of tuples; md5 is taken to be          *)
(* injective and the hash is the concatenated label itself.  The h5 file   *)
(* layer (h5py_wrapper) keeps what it is given.                            *)
(***************************************************************************)
Quantity(val, unit) == [t |-> "Quantity", val |-> val, unit |-> unit]
Number(v) == [t |-> "number", v |-> v]
String(c) == [t |-> "str", s |-> c]
List(parts) == [t |-> "list", parts |-> parts]
NdArray(parts) == [t |-> "ndarray", parts |-> parts]
Dict(d) == [t |-> "dict", d |-> d]
EmptyDict == Dict(<<>>)
ValUnit(val, unit) == Dict([k \in {"val", "unit"} |-> IF k = "val" THEN val ELSE unit])
AttributeError == [kind |-> "AttributeError"]

\* formatval of val_unit_to_quantities: a list becomes an np.array
formatval(val) == IF val.t = "list" THEN NdArray(val.parts) ELSE val

\* one entry of val_unit_to_quantities
val_unit_to_quantity(value) ==
    IF value.t = "dict" /\ DOMAIN value.d = {"val", "unit"}
    THEN Quantity(formatval(value.d["val"]), value.d["unit"].s)
    ELSE formatval(value)
val_unit_to_quantities(dict_of_val_unit_dicts) ==
    [key \in DOMAIN dict_of_val_unit_dicts |-> val_unit_to_quantity(dict_of_val_unit_dicts[key])]

\* one entry of quantities_to_val_unit
quantity_to_val_unit(quantity) ==
    IF quantity.t = "list"
    THEN IF \E n \in 1..Len(quantity.parts) : quantity.parts[n].t = "str"
         THEN quantity
         ELSE IF \E n \in 1..Len(quantity.parts) : quantity.parts[n].t = "Quantity"
         THEN IF \E n \in 1..Len(quantity.parts) : quantity.parts[n].t # "Quantity"
              THEN AttributeError
              ELSE ValUnit(NdArray([n \in 1..Len(quantity.parts) |-> quantity.parts[n].val]),
                           String(quantity.parts[1].unit))
         ELSE EmptyDict
    ELSE IF quantity.t = "Quantity"
    THEN ValUnit(quantity.val, String(quantity.unit))
    ELSE quantity
quantities_to_val_unit(dict_of_quantities) ==
    [key \in DOMAIN dict_of_quantities |-> quantity_to_val_unit(dict_of_quantities[key])]

\* the keys of the network parameters in sorted order
SortedKeys == <<"K", "g", "label">>
\* create_hash: the str of the values of the sorted param_keys, one after
\* the other
RECURSIVE create_hash_from(_, _, _)
create_hash_from(params, param_keys, n) ==
    IF n > Len(SortedKeys) THEN <<>>
    ELSE (IF SortedKeys[n] \in param_keys THEN params[SortedKeys[n]] ELSE <<>>)
             \o create_hash_from(params, param_keys, n + 1)
create_hash(params, param_keys) == create_hash_from(params, param_keys, 1)

\* '{}_{}.h5'.format(network_params['label'], str(hash))
DefaultName(network_params, param_keys) ==
    LET keys == IF param_keys = {} THEN DOMAIN network_params ELSE param_keys
    IN  <<network_params["label"], create_hash(network_params, keys)>>
NoName == <<>>

\* save: the files of the directory afterwards
save(files, results_dict, network_params, analysis_params, param_keys, output_name) ==
    LET name == IF output_name = NoName THEN DefaultName(network_params, param_keys)
                ELSE output_name
        output == [analysis_params |-> quantities_to_val_unit(analysis_params),
                   results |-> quantities_to_val_unit(results_dict)]
    IN  [f \in DOMAIN files \cup {name} |-> IF f = name THEN output ELSE files[f]]

\* load_from_h5 that opens input_name
load_from_h5_by_name(files, network_params, param_keys, input_name) ==
    LET name == IF input_name = NoName THEN DefaultName(network_params, param_keys)
                ELSE input_name
    IN  IF name \notin DOMAIN files
        THEN [kind |-> "value", analysis_params |-> <<>>, results |-> <<>>]
        ELSE [kind |-> "value",
              analysis_params |-> val_unit_to_quantities(files[name].analysis_params),
              results |-> val_unit_to_quantities(files[name].results)]

\* load_from_h5: with an input_name the local name hash is never assigned
\* and the file name of h5.load cannot be formatted
load_from_h5(files, network_params, param_keys, input_name) ==
    IF input_name # NoName THEN UnboundLocalError
    ELSE LET name == DefaultName(network_params, param_keys)
         IN  IF name \notin DOMAIN files
             THEN [kind |-> "value", analysis_params |-> <<>>, results |-> <<>>]
             ELSE [kind |-> "value",
                   analysis_params |-> val_unit_to_quantities(files[name].analysis_params),
                   results |-> val_unit_to_quantities(files[name].results)]

\* the values a dictionary may hold
Values ==
    { Quantity(Number(1), "millivolt"),
      Quantity(NdArray(<<Number(1), Number(2)>>), "hertz"),
      Number(3),
      List(<<String("L4E"), String("L4I")>>),
      List(<<Quantity(Number(1), "hertz"), Quantity(Number(2), "hertz")>>),
      List(<<Number(1), Number(2)>>),
      List(<<>>) }
NetworkParams ==
    { [k \in {"K", "g", "label"} |->
          CASE k = "K" -> K [] k = "g" -> g [] k = "label" -> <<"n", "e", "t">>] :
        K \in {<<"1">>, <<"1", "2">>}, g \in {<<"3">>, <<"2", "3">>} }
ParamKeys == {{}, {"K"}, {"K", "g"}}
FileNames == {NoName, <<<<"o", "u", "t">>, <<>>>>}

InitIO ==
    /\ IdleFR /\ IdleSG /\ IdleTF /\ IdlePS /\ IdleDD /\ IdleNW /\ IdleCC
    /\ \E np \in NetworkParams, r \in Values, a \in Values :
          ioArgs = [network_params |-> np,
                    results |-> [k \in {"mu"} |-> r],
                    analysis_params |-> [k \in {"df"} |-> a]]
    /\ ioFiles = <<>>
    /\ ioCall = NoCall

Call_save ==
    /\ \E param_keys \in ParamKeys, output_name \in FileNames :
          ioFiles' = save(ioFiles, ioArgs.results, ioArgs.network_params,
                          ioArgs.analysis_params, param_keys, output_name)
    /\ UNCHANGED <<ioArgs, ioCall, varsFR, varsSG, varsTF, varsPS, varsDD, varsNW, varsCC>>

Call_load_from_h5 ==
    /\ \E param_keys \in ParamKeys, input_name \in FileNames :
          ioCall' = [fn |-> "load_from_h5", param_keys |-> param_keys,
                     input_name |-> input_name, files |-> ioFiles,
                     res |-> load_from_h5(ioFiles, ioArgs.network_params,
                                          param_keys, input_name)]
    /\ UNCHANGED <<ioArgs, ioFiles, varsFR, varsSG, varsTF, varsPS, varsDD, varsNW, varsCC>>

NextIO == Call_save \/ Call_load_from_h5

SpecIO == InitIO /\ [][NextIO]_vars

(***************************************************************************)
(* The connectivity of Circuit.  A matrix is a tuple of rows of integers;  *)
(* a mask entry m stands for the factor m / MaxMask, so that a mask that   *)
(* is applied twice shows.  Analytics.update_variables is not part of the  *)
(* sources at hand; it is taken to do what _set_class_variables says of    *)
(* it: store the given variables as attributes of the Analytics object.    *)
(***************************************************************************)
MaxMask == 2

shape(A) == <<Len(A), IF Len(A) = 0 THEN 0 ELSE Len(A[1])>>
RuntimeError == [kind |-> "RuntimeError"]
Returned == [kind |-> "value"]
\* Analytics.update_variables({'M': M}): the attribute M of the object
update_variables(ana_M, M) == M

\* reduce_connectivity that masks the current M
reduce_connectivity_of_current(M_full, M, ana_M, M_red) ==
    IF shape(M_red) # shape(M_full)
    THEN [res |-> RuntimeError, M |-> M, ana_M |-> ana_M]
    ELSE LET new_M == array([i \in 1..Len(M) |-> array([j \in 1..Len(M[i]) |->
                          M[i][j] * M_red[i][j]])])
         IN  [res |-> Returned, M |-> new_M, ana_M |-> update_variables(ana_M, new_M)]

\* reduce_connectivity that tests the shape after the assignment
reduce_connectivity_late_test(M_full, M, ana_M, M_red) ==
    LET rows == IF Len(M_red) < Len(M_full) THEN Len(M_red) ELSE Len(M_full)
        new_M == array([i \in 1..rows |-> array([j \in 1..(IF Len(M_red[i]) < Len(M_full[i]) THEN Len(M_red[i]) ELSE Len(M_full[i])) |->
                     M_full[i][j] * M_red[i][j]])])
    IN  [res |-> IF shape(M_red) # shape(M_full) THEN RuntimeError ELSE Returned,
         M |-> new_M, ana_M |-> update_variables(ana_M, new_M)]

\* Circuit.reduce_connectivity: the outcome and self.M, self.ana.M afterwards
reduce_connectivity(M_full, M, ana_M, M_red) ==
    IF shape(M_red) # shape(M_full)
    THEN [res |-> RuntimeError, M |-> M, ana_M |-> ana_M]
    ELSE LET new_M == array([i \in 1..Len(M_full) |-> array([j \in 1..Len(M_full[i]) |->
                          M_full[i][j] * M_red[i][j]])])
         IN  [res |-> Returned, M |-> new_M, ana_M |-> update_variables(ana_M, new_M)]

\* Circuit.restore_full_connectivity
restore_full_connectivity(M_full, M, ana_M) ==
    [res |-> Returned, M |-> M_full, ana_M |-> update_variables(ana_M, M_full)]

\* indegree matrices and masks of r rows and c columns
Indegrees(n) ==
    { array([i \in 1..n |-> array([j \in 1..n |-> k + ((i + j) % 2)])]) : k \in 1..2 }
Masks(r, c) ==
    { array([i \in 1..r |-> array([j \in 1..c |-> (a + b * i + d * j) % (MaxMask + 1)])]) :
        a \in 0..MaxMask, b, d \in 0..1 }

InitCC ==
    /\ IdleFR /\ IdleSG /\ IdleTF /\ IdlePS /\ IdleDD /\ IdleNW /\ IdleIO
    /\ \E n \in 1..MaxPop : ccM_full \in Indegrees(n)
    /\ ccM = ccM_full
    /\ ccAnaM = ccM_full
    /\ ccCall = NoCall

Call_reduce_connectivity ==
    /\ \E r \in 1..MaxPop, c \in 1..MaxPop : \E M_red \in Masks(r, c) :
          LET out == reduce_connectivity(ccM_full, ccM, ccAnaM, M_red)
          IN  /\ ccM' = out.M
              /\ ccAnaM' = out.ana_M
              /\ ccCall' = [fn |-> "reduce_connectivity", M_red |-> M_red,
                            res |-> out.res, M_before |-> ccM,
                            ana_M_before |-> ccAnaM]
    /\ UNCHANGED <<ccM_full, varsFR, varsSG, varsTF, varsPS, varsDD, varsNW, varsIO>>

Call_restore_full_connectivity ==
    /\ LET out == restore_full_connectivity(ccM_full, ccM, ccAnaM)
       IN  /\ ccM' = out.M
           /\ ccAnaM' = out.ana_M
           /\ ccCall' = [fn |-> "restore_full_connectivity", res |-> out.res,
                         M_before |-> ccM, ana_M_before |-> ccAnaM]
    /\ UNCHANGED <<ccM_full, varsFR, varsSG, varsTF, varsPS, varsDD, varsNW, varsIO>>

NextCC == Call_reduce_connectivity \/ Call_restore_full_connectivity

SpecCC == InitCC /\ [][NextCC]_vars

Masked(A, mask) ==
    [i \in 1..Len(A) |-> [j \in 1..Len(A[i]) |-> A[i][j] * mask[i][j]]]
ReduceReturned == ccCall.fn = "reduce_connectivity" /\ ccCall.res = Returned
ReduceRaised == ccCall.fn = "reduce_connectivity" /\ ccCall.res = RuntimeError
MFullKept == ccM_full' = ccM_full

\* C23: after any sequence of reduce_connectivity and
\* restore_full_connectivity calls M is M_full times the mask of the last
\* reduce that returned, or M_full after a restore; the Analytics object's
\* M equals M; no call changes M_full
C23_Theorem ==
    /\ [](/\ ReduceReturned => ccM = Masked(ccM_full, ccCall.M_red)
          /\ ccCall.fn = "restore_full_connectivity" => ccM = ccM_full
          /\ ccAnaM = ccM)
    /\ [][MFullKept]_vars

\* a reduce has returned on a connectivity that an earlier reduce had
\* already changed, with a mask that another application would show
C23_Witness ==
    /\ ReduceReturned
    /\ ccCall.M_before # ccM_full
    /\ ccM # ccM_full
    /\ Masked(ccCall.M_before, ccCall.M_red) # ccM

\* C24: reduce_connectivity with a mask of another shape than M_full raises
\* RuntimeError and leaves M, M_full and the Analytics object's M as they
\* were
C24_Theorem ==
    /\ [](ccCall.fn = "reduce_connectivity" =>
            /\ ccCall.res = RuntimeError <=> shape(ccCall.M_red) # shape(ccM_full)
            /\ ccCall.res = RuntimeError =>
                  ccM = ccCall.M_before /\ ccAnaM = ccCall.ana_M_before)
    /\ [][ccM_full' = ccM_full]_vars

\* a reduce with a mask of one row has raised on a connectivity of two
\* populations that an earlier reduce had changed
C24_Witness ==
    /\ ReduceRaised
    /\ Len(ccM_full) = 2 /\ Len(ccCall.M_red) = 1
    /\ ccM # ccM_full

\* C19 as stated: load_from_h5 with a non-empty input_name returns what the
\* file of that name holds, whatever the hash of network_params is
C19_Original ==
    (ioCall.fn = "load_from_h5" /\ ioCall.input_name # NoName) =>
        ioCall.res = load_from_h5_by_name(ioCall.files, ioArgs.network_params, ioCall.param_keys, ioCall.input_name)

\* the keys that enter the hash for a given param_keys
HashedKeys(network_params, param_keys) ==
    IF param_keys = {} THEN DOMAIN network_params ELSE param_keys

\* C21 as stated: parameters that differ in the value of a key of param_keys
\* have different labels before hashing, so a file that save wrote by
\* default is not the default file of such other parameters
C21_Original ==
    \A param_keys \in ParamKeys, other \in NetworkParams :
        (/\ DefaultName(ioArgs.network_params, param_keys) \in DOMAIN ioFiles
         /\ \E key \in HashedKeys(other, param_keys) : other[key] # ioArgs.network_params[key])
            => /\ create_hash(other, HashedKeys(other, param_keys)) # create_hash(ioArgs.network_params, HashedKeys(other, param_keys))
               /\ DefaultName(other, param_keys) \notin DOMAIN ioFiles

\* a value that is neither a Quantity nor a list that contains Quantities
NoQuantity(value) ==
    /\ value.t # "Quantity"
    /\ value.t = "list" => \A n \in 1..Len(value.parts) : value.parts[n].t # "Quantity"

\* C22 as stated: what save wrote holds every entry that is not a quantity
\* exactly as it was given, a list of plain numbers and an empty list
\* included
C22_Original ==
    \A name \in DOMAIN ioFiles :
        /\ NoQuantity(ioArgs.results["mu"]) => ioFiles[name].results["mu"] = ioArgs.results["mu"]
        /\ NoQuantity(ioArgs.analysis_params["df"]) =>
              ioFiles[name].analysis_params["df"] = ioArgs.analysis_params["df"]

\* the file that save writes by default for these param_keys was there
\* when load_from_h5 was called
SavedByDefault(param_keys) ==
    DefaultName(ioArgs.network_params, param_keys) \in DOMAIN ioCall.files

\* C20 as stated: after a save under the default name, load_from_h5 with the
\* same network_params and param_keys returns the saved analysis_params and
\* results
C20_Original ==
    (ioCall.fn = "load_from_h5" /\ ioCall.input_name = NoName /\ SavedByDefault(ioCall.param_keys)) =>
        /\ ioCall.res.kind = "value"
        /\ ioCall.res.analysis_params = ioArgs.analysis_params
        /\ ioCall.res.results = ioArgs.results

CachedCall == nwCall.fn \in {"mean", "variance"}

\* C17 as stated: a cached method returns the stored value when the key is
\* in self.results, and otherwise invokes the wrapped function once, stores
\* its value under the key and returns it; the other keys are unchanged
C17_Original ==
    CachedCall =>
        /\ nwCall.hit => nwCall.res = nwCall.before[nwCall.key]
        /\ ~nwCall.hit =>
              /\ nwCall.res.kind = "value"
              /\ nwCall.key \in DOMAIN nwResults
              /\ nwResults[nwCall.key] = nwCall.res
        /\ nwInvoked[nwCall.key] <= 1

\* C18 as stated: a cached method called after network_params have changed
\* does not return the value that self.results held before the change
C18_Original ==
    (CachedCall /\ nwCall.res.kind = "value") => nwCall.res.from = nwCall.params

\* the value of an entry when it is a complex number without attenuation
\* and without the factor of the truncation
PurePhase(entry, z) ==
    entry.b0 = NoAttenuation /\ entry.ratio = NoTruncation /\ entry.b1 = z
\* (-i)^k by repeated multiplication
RECURSIVE PowNegI(_)
PowNegI(k) == IF k = 0 THEN COne ELSE CMul(CInt(0, -1), PowNegI(k - 1))
ExpNegI(phase) == IF phase >= 0 THEN PowNegI(phase) ELSE conjugate(PowNegI(-phase))
NoneReturned ==
    ddRes.fn = "delay_dist_matrix_single" /\ ddArgs.delay_dist = "none"

\* C15: with kind 'none' delay_dist_matrix_single returns the N x N matrix of
\* the entries exp(-i omega Delay[i][j]), the same for every Delay_sd, and
\* at omega = 0 every entry is 1
C15_Theorem ==
    NoneReturned =>
        /\ ddRes.res.kind = "value"
        /\ Len(ddRes.res.out) = ddArgs.dimension
        /\ \A i, j \in 1..ddArgs.dimension :
              /\ Len(ddRes.res.out[i]) = ddArgs.dimension
              /\ PurePhase(ddRes.res.out[i][j], ExpNegI(ddArgs.omega * ddArgs.Delay[i][j]))
              /\ ddArgs.omega = 0 => PurePhase(ddRes.res.out[i][j], COne)
        /\ \A sd \in DelaySdMatrices(ddArgs.dimension) :
              delay_dist_matrix_single(ddArgs.dimension, ddArgs.Delay, sd, "none", ddArgs.omega) = ddRes.res

\* a call with kind 'none' has returned for two populations, different
\* delays and a frequency that turns one of them by a quarter: the matrix
\* has entries 1 and -i
C15_Witness ==
    /\ NoneReturned
    /\ ddArgs.dimension = 2
    /\ ddArgs.omega # 0
    /\ \E i, j \in 1..2 : ddRes.res.out[i][j].b1 = CInt(0, -1)
    /\ \E i, j \in 1..2 : ddRes.res.out[i][j].b1 = COne
    /\ \E i, j \in 1..2 : ddArgs.Delay_sd[i][j] # ddArgs.Delay_sd[1][1]

----------------------------------------------------------------------------
(* Claims about the spectral analysis *)

PowerAt(m) ==
    power_spectra_single_freq(
        psArgs.tau_m, psArgs.tau_s, psArgs.transfer_function[m],
        psArgs.dimension, psArgs.J, psArgs.K, psArgs.delay_dist_matrix[m],
        psArgs.firing_rates, psArgs.N, psArgs.omegas[m])
PowerReturned == psRes.fn = "power_spectra" /\ psRes.res.kind = "value"

\* C9: what power_spectra returns is an N x M array, row = population and
\* column = frequency in grid order, of non-negative real values, entry
\* [i][m] being the absolute value of the i-th diagonal entry of
\* C = Q * D * Q^H at omegas[m]
C9_Theorem ==
    PowerReturned =>
        /\ Len(psRes.res.out) = psArgs.dimension
        /\ \A i \in 1..Len(psRes.res.out) :
              /\ Len(psRes.res.out[i]) = Len(psArgs.omegas)
              /\ \A m \in 1..Len(psRes.res.out[i]) :
                    /\ psRes.res.out[i][m].im = 0
                    /\ psRes.res.out[i][m].re >= 0
                    /\ psRes.res.out[i][m].den > 0
                    /\ psRes.res.out[i][m] = PowerAt(m).spec[i]

\* power_spectra has returned for two populations and two frequencies whose
\* spectra differ between the populations and between the frequencies
C9_Witness ==
    /\ PowerReturned
    /\ psArgs.dimension = 2 /\ Len(psArgs.omegas) = 2
    /\ psRes.res.out[1][2] # psRes.res.out[2][1]
    /\ psRes.res.out[1][1] # psRes.res.out[1][2]
    /\ psRes.res.out[1][1] # psRes.res.out[2][1]

SensitivityReturned == psRes.fn = "sensitivity_measure"
SelectedPair(r) == <<r.eigenvalue, r.eigenvector>>
\* the positions of the solver's list whose eigenvalue is closest to 1
Closest(r) ==
    { k \in 1..Len(r.e) :
        \A l \in 1..Len(r.e) : ~AbsLess(CSub(r.e[l], COne), CSub(r.e[k], COne)) }

\* C10 as stated: for every order of the solver's pairs, spectra with two
\* eigenvalues equally close to 1 included, the same pair is selected
C10_Original ==
    SensitivityReturned => SelectedPair(psRes.res) = SelectedPair(psRes.ref)

\* C10 amended: for every order of the solver's pairs the selected eigenvalue
\* is one closest to 1, and the same pair is selected if only one eigenvalue
\* of the list is closest to 1; if several are, the first of them in the
\* solver's order is selected
C10_Amended ==
    SensitivityReturned =>
        /\ psRes.res.index \in Closest(psRes.res)
        /\ \A k \in Closest(psRes.res) : psRes.res.index <= k
        /\ Cardinality(Closest(psRes.res)) = 1 =>
              SelectedPair(psRes.res) = SelectedPair(psRes.ref)

\* the solver's order is not the order of the diagonal, one eigenvalue is
\* closest to 1, and it is not the first of the list
C10_Witness ==
    /\ SensitivityReturned
    /\ psRes.order # DiagonalOrder(psArgs.dimension)
    /\ Cardinality(Closest(psRes.res)) = 1
    /\ psRes.res.index # 1
    /\ psRes.res.index # psRes.ref.index

\* MH(omegas[m]) and the solver's eigenvector matrix of the call in psRes
MHAt(m) ==
    EffectiveConnectivity(psArgs.transfer_function[m], psArgs.delay_dist_matrix[m], psArgs.J, psArgs.tau_m, psArgs.tau_s, psArgs.dimension, psArgs.omegas[m])
UAt(m, order) == eig(MHAt(m), order).U
\* outer(U_inv[k], U[:,k]) / (U_inv[k] . U[:,k]) multiplied elementwise by MH
ProjectorTimesMH(MH, U, k) ==
    LET U_inv == inv(U)
        norm == CSum(array([l \in 1..Len(U) |-> CMul(U_inv[k][l], U[l][k])]))
    IN  array([i \in 1..Len(U) |-> array([j \in 1..Len(U) |->
            CMul(CDiv(CMul(U_inv[k][i], U[j][k]), norm), MH[i][j])])])

\* C11: without a mode index sensitivity_measure selects an eigenvalue that
\* minimizes |e - 1|, the one of lowest index among several at the minimal
\* distance, and returns the projector of that mode multiplied elementwise
\* by MH: for a diagonal MH the diagonal entry of the mode, 0 elsewhere
C11_Theorem ==
    SensitivityReturned =>
        LET k == psRes.res.index
            MH == MHAt(psRes.m)
        IN  /\ \A l \in 1..Len(psRes.res.e) :
                  /\ ~AbsLess(CSub(psRes.res.e[l], COne), CSub(psRes.res.e[k], COne))
                  /\ l < k => AbsLess(CSub(psRes.res.e[k], COne), CSub(psRes.res.e[l], COne))
            /\ psRes.res.e = eig(MH, psRes.order).e
            /\ psRes.res.T = ProjectorTimesMH(MH, UAt(psRes.m, psRes.order), k)
            /\ \A i, j \in 1..psArgs.dimension :
                  psRes.res.T[i][j] =
                      IF i = j /\ i = psRes.order[k] THEN MH[i][i] ELSE CZero

\* sensitivity_measure has returned for a list in which two different
\* eigenvalues are at the minimal distance from 1, and a third pair is not
C11_Witness ==
    /\ SensitivityReturned
    /\ psRes.res.index = 1
    /\ \E l \in Closest(psRes.res) : l # 1 /\ psRes.res.e[l] # psRes.res.e[1]
    /\ ~CIsZero(psRes.res.T[psRes.order[1]][psRes.order[1]])

IndexedCircuitCall == psRes.fn = "get_sensitivity_measure" /\ psRes.index.given
IndexedFunctionCall == psRes.fn = "sensitivity_measure_with_index"

\* C12 as stated: with a mode index k both Circuit.get_sensitivity_measure and
\* meanfield_calcs.sensitivity_measure build the projector from mode k
C12_Original ==
    (IndexedCircuitCall \/ IndexedFunctionCall) =>
        /\ psRes.res.kind = "value"
        /\ psRes.res.index = psRes.index.k

\* C12 amended: with a mode index k Circuit.get_sensitivity_measure builds the
\* projector from mode k of MH and makes no search, without one it searches
\* the eigenvalue nearest to 1; meanfield_calcs.sensitivity_measure has no
\* index parameter: given one it raises TypeError
C12_Amended ==
    /\ IndexedCircuitCall =>
          /\ psRes.res.kind = "value"
          /\ psRes.res.index = psRes.index.k
          /\ psRes.res.eigenvalue = eig(MHAt(psRes.m), psRes.order).e[psRes.index.k]
          /\ psRes.res.T = ProjectorTimesMH(MHAt(psRes.m), UAt(psRes.m, psRes.order), psRes.index.k)
    /\ (psRes.fn = "get_sensitivity_measure" /\ ~psRes.index.given) =>
          psRes.res.index = argmin_abs_e_minus_1(eig(MHAt(psRes.m), psRes.order).e)
    /\ IndexedFunctionCall => psRes.res = TypeError

\* Circuit.get_sensitivity_measure has returned for a mode index that is
\* not the position of an eigenvalue nearest to 1
C12_Witness ==
    /\ IndexedCircuitCall
    /\ psRes.res.kind = "value"
    /\ psRes.index.k \notin Closest(psRes.res)
    /\ psRes.res.index = psRes.index.k

EigenReturned == psRes.fn = "eigen_spectra" /\ psRes.res.kind = "value"
\* the matrix that a tag selects at omegas[m]
SelectedMatrix(matrix, m) ==
    LET MH == MHAt(m)
        P == dot(inv(MatSub(identity(psArgs.dimension), MH)), MH)
    IN  CASE matrix = "MH" -> MH
          [] matrix = "prop" -> P
          [] matrix = "prop_inv" -> inv(P)
\* A vr = vr diag(e), column by column
Decomposes(A, e, vr) ==
    \A k \in 1..Len(A), i \in 1..Len(A) :
        CSum(array([l \in 1..Len(A) |-> CMul(A[i][l], vr[l][k])])) = CMul(e[k], vr[i][k])

\* C13: for the tags MH, prop, prop_inv and eigvals, reigvecs, leigvecs a
\* value returned by eigen_spectra has one entry per frequency, in grid
\* order, from the decomposition of the selected matrix at that frequency
\* in the order of the solver's output: the eigenvalues, the transpose of
\* the eigenvector matrix, or its inverse
C13_Theorem ==
    EigenReturned =>
        /\ psRes.quantity \in QuantityTags /\ psRes.matrix \in MatrixTags
        /\ Len(psRes.res.out) = Len(psArgs.omegas)
        /\ \A m \in 1..Len(psArgs.omegas) :
              LET A == SelectedMatrix(psRes.matrix, m)
                  eU == eig_scaled(A, psRes.orders[m], psRes.phase)
                  entry == psRes.res.out[m]
              IN  /\ Decomposes(A, eU.e, eU.U)
                  /\ psRes.quantity = "eigvals" => entry = eU.e
                  /\ psRes.quantity = "reigvecs" =>
                        \A k, i \in 1..psArgs.dimension : entry[k][i] = eU.U[i][k]
                  /\ psRes.quantity = "leigvecs" =>
                        dot(entry, eU.U) = identity(psArgs.dimension)

\* eigen_spectra has returned the right eigenvectors of P^-1 on a grid of
\* two frequencies where the solver's order differs between the two and the
\* eigenvector matrix differs from its transpose
C13_Witness ==
    /\ EigenReturned
    /\ psRes.quantity = "reigvecs" /\ psRes.matrix = "prop_inv"
    /\ Len(psArgs.omegas) = 2
    /\ psRes.orders[1] # psRes.orders[2]
    /\ psRes.res.out[1] # transpose(psRes.res.out[1])
    /\ psRes.res.out[1] # psRes.res.out[2]

\* the single-frequency computation of the call in psRes at omegas[m]
SingleFrequency(m) ==
    IF psRes.fn = "power_spectra"
    THEN power_spectra_single_freq(psArgs.tau_m, psArgs.tau_s, psArgs.transfer_function[m], psArgs.dimension, psArgs.J, psArgs.K, psArgs.delay_dist_matrix[m], psArgs.firing_rates, psArgs.N, psArgs.omegas[m])
    ELSE eigen_spectra_single_freq(psArgs.tau_m, psArgs.tau_s, psArgs.transfer_function[m], psArgs.dimension, psArgs.delay_dist_matrix[m], psArgs.J, psArgs.omegas[m], psRes.matrix, psRes.orders[m], psRes.phase)
BatchCall ==
    \/ psRes.fn = "power_spectra"
    \/ psRes.fn = "eigen_spectra" /\ psRes.quantity \in QuantityTags /\ psRes.matrix \in MatrixTags

\* C14 as stated: a failure at one frequency of power_spectra or
\* eigen_spectra is confined to its slot, so a call on a grid with a
\* frequency whose computation succeeds returns a value
C14_Original ==
    (BatchCall /\ \E m \in 1..Len(psArgs.omegas) : SingleFrequency(m).kind = "value")
        => psRes.res.kind = "value"

\* MH(omegas[m]) of a diagonal J written out entry by entry, from the
\* conjugate of the supplied values for a negative frequency
ExpectedMH(m, i) ==
    LET omega == psArgs.omegas[m]
        x == psArgs.transfer_function[m][i]
        X == IF omega < 0 THEN [re |-> x.re, im |-> -x.im, den |-> x.den] ELSE x
    IN  CMul(CMul(CDiv(CMul(CInt(psArgs.tau_m, 0), X), CInt(1, omega * psArgs.tau_s)), psArgs.J[i][i]), psArgs.delay_dist_matrix[m][i][i])
\* the result in psRes is the one that follows from ExpectedMH
UsesExpectedMH ==
    /\ psRes.fn = "sensitivity_measure" =>
          \A k \in 1..psArgs.dimension :
              psRes.res.e[k] = ExpectedMH(psRes.m, psRes.order[k])
    /\ (EigenReturned /\ psRes.quantity = "eigvals" /\ psRes.matrix \in {"MH", "prop"}) =>
          \A m \in 1..Len(psArgs.omegas), k \in 1..psArgs.dimension :
              LET mh == ExpectedMH(m, psRes.orders[m][k])
              IN  psRes.res.out[m][k] =
                      IF psRes.matrix = "MH" THEN mh ELSE CDiv(mh, CSub(COne, mh))
    /\ (PowerReturned /\ IsDiagonal(psArgs.J)) =>
          \A m \in 1..Len(psArgs.omegas), i \in 1..psArgs.dimension :
              LET a == CSub(COne, CMul(ExpectedMH(m, i), psArgs.K[i][i]))
              IN  psRes.res.out[i][m] =
                      CDiv(CDiv(CInt(psArgs.firing_rates[i], 0), CInt(psArgs.N[i], 0)),
                           CMul(a, conjugate(a)))
NegativeNonReal(m) ==
    /\ psArgs.omegas[m] < 0
    /\ \E i \in 1..psArgs.dimension : psArgs.transfer_function[m][i].im # 0
CallerArrayKept == psArgs'.transfer_function = psArgs.transfer_function

\* C16: sensitivity_measure, power_spectra and eigen_spectra build
\* MH(omega) from the conjugate of the supplied transfer-function values
\* when omega < 0 and from the supplied values when omega >= 0, and every
\* call leaves the caller's transfer-function array as it was
C16_Theorem == []UsesExpectedMH /\ [][CallerArrayKept]_vars

\* power_spectra has returned on a grid of two negative frequencies with
\* non-real transfer-function values, and the values in the caller's array
\* are not their own conjugates
C16_Witness ==
    /\ PowerReturned /\ IsDiagonal(psArgs.J)
    /\ Len(psArgs.omegas) = 2
    /\ NegativeNonReal(1) /\ NegativeNonReal(2)
    /\ psArgs.delay_dist_matrix[1][1][1] = CInt(0, -1)

\* tau_m * tf[i] / (1 + i * omega * tau_s) at omegas[m], tf being the values
\* the single-frequency computation works with
BroadcastValue(m, i) ==
    LET omega == psArgs.omegas[m]
        x == psArgs.transfer_function[m][i]
        X == IF omega < 0 THEN conjugate(x) ELSE x
    IN  CDiv(CMul(CInt(psArgs.tau_m, 0), X), CInt(1, omega * psArgs.tau_s))
\* the matrices with the entries H[i][j] * J[i][j] * DelayMatrix[i][j] and
\* H[i][j] * J[i][j] * K[i][j] * DelayMatrix[i][j] for H[i][j] = BroadcastValue(m, i)
EntrywiseMH(m) ==
    [i \in 1..psArgs.dimension |-> [j \in 1..psArgs.dimension |->
        CMul(CMul(BroadcastValue(m, i), psArgs.J[i][j]),
             psArgs.delay_dist_matrix[m][i][j])]]
EntrywiseMHK(m) ==
    [i \in 1..psArgs.dimension |-> [j \in 1..psArgs.dimension |->
        CMul(CMul(CMul(BroadcastValue(m, i), psArgs.J[i][j]), psArgs.K[i][j]),
             psArgs.delay_dist_matrix[m][i][j])]]
\* the spectrum |diag(Q D Q^H)| that belongs to a matrix MH
SpectrumOf(MH) ==
    LET d == psArgs.dimension
        Q == inv(MatSub(identity(d), MH))
        D == [i \in 1..d |-> [j \in 1..d |->
                 CDiv(CMul(identity(d)[i][j], CInt(psArgs.firing_rates[j], 0)),
                      CInt(psArgs.N[j], 0))]]
        C == dot(Q, dot(D, transpose(MatConj(Q))))
    IN  [i \in 1..d |-> absolute(diag(C)[i])]
Called == psRes.fn # "none"

\* C28: in sensitivity_measure, power_spectra and eigen_spectra the matrix H
\* of one frequency has H[i][j] = tau_m * tf[i] / (1 + i * omega * tau_s) in
\* every column j, MH[i][j] = H[i][j] * J[i][j] * DelayMatrix[i][j], and in
\* power_spectra MH[i][j] = H[i][j] * J[i][j] * K[i][j] * DelayMatrix[i][j]
C28_Theorem ==
    /\ Called =>
          \A m \in 1..Len(psArgs.omegas) :
              /\ \A i, j \in 1..psArgs.dimension :
                    TransferMatrix(psArgs.tau_m, psArgs.tau_s,
                                   psArgs.transfer_function[m], psArgs.dimension,
                                   psArgs.omegas[m])[i][j] = BroadcastValue(m, i)
              /\ EffectiveConnectivity(psArgs.transfer_function[m],
                                       psArgs.delay_dist_matrix[m], psArgs.J,
                                       psArgs.tau_m, psArgs.tau_s,
                                       psArgs.dimension, psArgs.omegas[m])
                    = EntrywiseMH(m)
    /\ PowerReturned =>
          \A m \in 1..Len(psArgs.omegas), i \in 1..psArgs.dimension :
              psRes.res.out[i][m] = SpectrumOf(EntrywiseMHK(m))[i]
    /\ psRes.fn = "sensitivity_measure" =>
          \A i, j \in 1..psArgs.dimension :
              psRes.res.T[i][j] =
                  CMul(CDiv(CMul(inv(eig(EntrywiseMH(psRes.m), psRes.order).U)[psRes.res.index][i],
                                 psRes.res.eigenvector[j]),
                            CSum([k \in 1..psArgs.dimension |->
                                CMul(inv(eig(EntrywiseMH(psRes.m), psRes.order).U)[psRes.res.index][k],
                                     psRes.res.eigenvector[k])])),
                       EntrywiseMH(psRes.m)[i][j])

\* power_spectra has returned for a full J and two populations whose
\* transfer-function values differ
C28_Witness ==
    /\ PowerReturned /\ ~IsDiagonal(psArgs.J)
    /\ psArgs.dimension = 2
    /\ psArgs.transfer_function[1][1] # psArgs.transfer_function[1][2]
    /\ psArgs.K[1][2] # COne

UnknownQuantity == psRes.fn = "eigen_spectra" /\ psRes.quantity \notin QuantityTags
UnknownMatrix == psRes.fn = "eigen_spectra" /\ psRes.matrix \notin MatrixTags
SingularAtFirst == Singular(MatSub(identity(psArgs.dimension), MHAt(1)))

\* C30 as stated: eigen_spectra with a matrix tag outside {MH, prop,
\* prop_inv} or a quantity tag outside {eigvals, reigvecs, leigvecs} returns
\* no result; an unknown matrix tag fails with an unbound-variable error at
\* the first frequency, after I - MH has been inverted, and an unknown
\* quantity tag with an unbound-variable error before any frequency
C30_Original ==
    /\ (UnknownQuantity \/ UnknownMatrix) => psRes.res.kind # "value"
    /\ UnknownMatrix => psRes.res = UnboundLocalError
    /\ UnknownQuantity => psRes.res = UnboundLocalError

\* C30 amended: eigen_spectra with an unknown matrix tag or an unknown
\* quantity tag returns no result; an unknown quantity tag fails with an
\* unbound-variable error before any frequency is evaluated, whatever the
\* matrix tag; with a known quantity tag an unknown matrix tag fails at the
\* first frequency, with the solver's error where I - MH is singular there
\* and with an unbound-variable error after the inversion otherwise
C30_Amended ==
    /\ (UnknownQuantity \/ UnknownMatrix) => psRes.res.kind # "value"
    /\ UnknownQuantity => psRes.res = UnboundLocalError
    /\ (UnknownMatrix /\ ~UnknownQuantity) =>
          psRes.res = IF SingularAtFirst THEN LinAlgError ELSE UnboundLocalError

\* eigen_spectra called with an unknown matrix tag on a grid of two
\* frequencies, I - MH being singular at the first and regular at the second
C30_Witness ==
    /\ UnknownMatrix /\ ~UnknownQuantity
    /\ Len(psArgs.omegas) = 2
    /\ SingularAtFirst
    /\ ~Singular(MatSub(identity(psArgs.dimension), MHAt(2)))
    /\ psRes.res = LinAlgError

====
